---- MODULE Spec2Model ----
(***************************************************************************)
(* Model of the tool middleware, approval gating and tool routing of the   *)
(* RHOAI ops agent (src/agents/helpers/*.py, src/agents/interactive_agent  *)
(* .py) and of the Jenkins log analysis (src/agents/analysis_agent.py,     *)
(* src/agent.py, src/prompt_config.py, src/agents/prompt_config.py).       *)
(*                                                                         *)
(* Python strings are sequences of atoms.  Data characters are atoms of    *)
(* the alphabet Chars; fixed program text and identifiers (a key such as   *)
(* "text", a literal such as "ERROR in tool '", a class name) are single   *)
(* atoms, which no sequence over Chars can spell.  Two strings are equal   *)
(* exactly when their atom sequences are.                                  *)
(*                                                                         *)
(* A Python value is a record [kind, val]:                                 *)
(*   none  val = <<>>          str   val = the atoms                       *)
(*   dict  val = function from keys to values                              *)
(*   list  val = sequence of values                                        *)
(*   obj   val = <<>>   an object json cannot serialise                    *)
(***************************************************************************)
EXTENDS Integers, Sequences, FiniteSets, TLC

VARIABLES
    content,           \* normalizer: the argument of normalize_mcp_content
    normalized,        \* normalizer: what the call produced
    mw_pc,             \* middleware, per call: "idle", "awaiting", "done"
    mw_request,        \* per call: request.tool_call, a dict
    mw_handler_calls,  \* per call: how many times handler(request) was called
    mw_handled,        \* per call: what the handler did
    mw_outcome,        \* per call: what handle_tool_errors did
    mw_logged,         \* per call: the messages passed to logger.error
    cfg_servers,       \* Config.servers: per server, approval.tools
    tools_by_server,   \* per server, the names of the tools grouped under it
    sub_args,          \* per server, the approval_tools passed to create_subagent
    agents,            \* per server, the sub-agent create_subagent returned
    sup_pc,            \* SupervisorAgent._init_agent: "start", "ready", "failed"
    sup_middleware,    \* the supervisor's middleware list
    sup_approval,      \* _init_agent: the approval_tools its middleware is built from
    all_approval,      \* what Config.get_all_approval_tools returned
    tool_state,        \* per server and tool: "idle", "paused", "executed", "rejected"
    tool_offered,      \* per server and tool: the decisions the interrupt offered
    rt_servers,        \* router: the ids of config.servers, in declaration order
    rt_tools,          \* router: the names of the tools get_tools() discovered
    rt_result,         \* router: what load_mcp_tools produced
    g_env,             \* log-analysis graph: which environment settings are present
    g_node,            \* graph: the node to run next, "START" before the run, "END" after
    g_state,           \* graph: the AgentState passed from node to node
    g_trace,           \* graph: the nodes that ran, in order, with how each try block ended
    g_calls,           \* graph: the calls made to Jenkins and to the model, in order
    p_response,        \* parse step: response.content
    p_graph,           \* parse step: what _parse_response_node made of it
    p_agent,           \* parse step: what JenkinsAnalysisAgent.analyze_logs made of it
    pr_logs,           \* prompt: the logs given to create_analysis_prompt
    pr_types,          \* prompt: the analysis_types given to it
    pr_prompt,         \* prompt: what src/prompt_config.py built
    pr_agents_prompt   \* prompt: what src/agents/prompt_config.py built

normVars == <<content, normalized>>
mwVars == <<mw_pc, mw_request, mw_handler_calls, mw_handled, mw_outcome, mw_logged>>
gateVars == <<cfg_servers, tools_by_server, sub_args, agents, sup_pc, sup_middleware,
              sup_approval, all_approval, tool_state, tool_offered>>
routerVars == <<rt_servers, rt_tools, rt_result>>
graphVars == <<g_env, g_node, g_state, g_trace, g_calls>>
parseVars == <<p_response, p_graph, p_agent>>
promptVars == <<pr_logs, pr_types, pr_prompt, pr_agents_prompt>>
anaVars == <<graphVars, parseVars, promptVars>>
vars == <<normVars, mwVars, gateVars, routerVars, anaVars>>

(***************************************************************************)
(* Bounds                                                                  *)
(***************************************************************************)
MaxItems == 2      \* longest content list
MaxTextLen == 1    \* longest data string

Chars == {"a", "\""}

RECURSIVE StringsUpTo(_)
StringsUpTo(n) ==
    IF n = 0 THEN {<<>>}
    ELSE LET shorter == StringsUpTo(n - 1)
         IN shorter \cup {Append(s, c) : s \in shorter, c \in Chars}

Texts == StringsUpTo(MaxTextLen)

(***************************************************************************)
(* Python values                                                           *)
(***************************************************************************)
PyNone == [kind |-> "none", val |-> <<>>]
PyStr(s) == [kind |-> "str", val |-> s]
PyDict(f) == [kind |-> "dict", val |-> f]
PyList(items) == [kind |-> "list", val |-> items]
PyObj == [kind |-> "obj", val |-> <<>>]

\* The keys a content item may carry, in the order MCP writes them:
\* {"type": "text", "text": "..."}.
ItemKeys == <<"type", "text">>
TypeNames == {<<"text">>, <<"image">>}

KeySets == SUBSET {ItemKeys[i] : i \in 1..Len(ItemKeys)}

ItemDicts ==
    UNION {{PyDict(f) : f \in {g \in [keys -> Texts \cup TypeNames] :
                                 /\ ("type" \in keys => g["type"] \in TypeNames)
                                 /\ ("text" \in keys => g["text"] \in Texts)}}
           : keys \in KeySets}

Items == ItemDicts \cup {PyStr(s) : s \in Texts} \cup {PyObj}

RECURSIVE ListsUpTo(_)
ListsUpTo(n) ==
    IF n = 0 THEN {<<>>}
    ELSE LET shorter == ListsUpTo(n - 1)
         IN shorter \cup {Append(l, i) : l \in shorter, i \in Items}

\* Lists of two text items with an item of another shape between or after
\* them.
TextOnly(s) == PyDict([k \in {"text"} |-> s])
OtherShapes == {PyStr(<<>>), PyObj, PyDict([k \in {"type"} |-> <<"image">>])}

MixedLists ==
    {<<TextOnly(a), x, TextOnly(b)>> : a \in Texts, b \in Texts, x \in OtherShapes}
        \cup {<<TextOnly(a), TextOnly(b), x>> : a \in Texts, b \in Texts, x \in OtherShapes}

Contents ==
    {PyNone} \cup {PyStr(s) : s \in Texts} \cup ItemDicts
             \cup {PyList(l) : l \in ListsUpTo(MaxItems)}
             \cup {PyList(l) : l \in MixedLists}

(***************************************************************************)
(* json.dumps(value, indent=2) and str(value), as Python computes them     *)
(***************************************************************************)
RECURSIVE Flatten(_)
Flatten(ss) == IF ss = <<>> THEN <<>> ELSE Head(ss) \o Flatten(Tail(ss))

RECURSIVE Join(_, _)
Join(sep, ss) ==
    IF ss = <<>> THEN <<>>
    ELSE IF Len(ss) = 1 THEN ss[1]
    ELSE ss[1] \o sep \o Join(sep, Tail(ss))

Spaces(n) == [i \in 1..n |-> " "]

\* json escapes the quote and the backslash inside a string.
JsonEscape(s) ==
    Flatten([i \in 1..Len(s) |->
                IF s[i] \in {"\"", "\\"} THEN <<"\\", s[i]>> ELSE <<s[i]>>])

JsonString(s) == <<"\"">> \o JsonEscape(s) \o <<"\"">>

\* The keys of a dict in insertion order.
KeysOf(d) == SelectSeq(ItemKeys, LAMBDA k : k \in DOMAIN d)

JsonSerializable(v) ==
    CASE v.kind \in {"none", "str"} -> TRUE
      [] v.kind = "obj" -> FALSE
      [] v.kind = "dict" -> TRUE           \* its values are strings
      [] v.kind = "list" -> \A i \in 1..Len(v.val) : v.val[i].kind # "obj"

\* A dict of strings at nesting depth `level`.
JsonDict(d, level) ==
    IF DOMAIN d = {} THEN <<"{", "}">>
    ELSE LET keys == KeysOf(d)
             member(k) == Spaces(2 * (level + 1)) \o JsonString(<<k>>)
                              \o <<":", " ">> \o JsonString(d[k])
         IN <<"{", "\n">>
               \o Join(<<",", "\n">>, [i \in 1..Len(keys) |-> member(keys[i])])
               \o <<"\n">> \o Spaces(2 * level) \o <<"}">>

JsonItem(v, level) ==
    CASE v.kind = "str" -> JsonString(v.val)
      [] v.kind = "dict" -> JsonDict(v.val, level)
      [] v.kind = "none" -> <<"null">>
      [] OTHER -> <<>>

\* json.dumps(items, indent=2) of a list; defined where JsonSerializable.
JsonList(items) ==
    IF items = <<>> THEN <<"[", "]">>
    ELSE <<"[", "\n">>
            \o Join(<<",", "\n">>,
                    [i \in 1..Len(items) |-> Spaces(2) \o JsonItem(items[i], 1)])
            \o <<"\n", "]">>

\* repr() of a string over Chars: single quotes, nothing to escape.
PyReprString(s) == <<"'">> \o s \o <<"'">>

PyReprItem(v) ==
    CASE v.kind = "str" -> PyReprString(v.val)
      [] v.kind = "none" -> <<"None">>
      [] v.kind = "obj" -> <<"<object>">>
      [] v.kind = "dict" ->
            LET keys == KeysOf(v.val)
            IN <<"{">>
                 \o Join(<<",", " ">>,
                         [i \in 1..Len(keys) |->
                             PyReprString(<<keys[i]>>) \o <<":", " ">>
                                 \o PyReprString(v.val[keys[i]])])
                 \o <<"}">>
      [] OTHER -> <<>>

\* str(content) of a list.
PyStrList(items) ==
    <<"[">> \o Join(<<",", " ">>, [i \in 1..Len(items) |-> PyReprItem(items[i])])
            \o <<"]">>

(***************************************************************************)
(* normalize_mcp_content                                                   *)
(***************************************************************************)
\* normalize_mcp_content has not returned yet.
NotCalled == [kind |-> "pending", val |-> <<>>]

\* An exception leaving a call, as a value.
PyRaised(name) == [kind |-> "raised", val |-> <<name>>]

\* isinstance(item, dict) and "text" in item
HasText(item) == item.kind = "dict" /\ "text" \in DOMAIN item.val

Reverse(seq) == [i \in 1..Len(seq) |-> seq[Len(seq) + 1 - i]]

TextItemsReversed(items) ==
    LET kept == Reverse(SelectSeq(items, HasText))
    IN [i \in 1..Len(kept) |-> kept[i].val["text"]]

\* [item["text"] for item in content if isinstance(item, dict) and "text" in item]
TextItems(items) ==
    LET kept == SelectSeq(items, HasText)
    IN [i \in 1..Len(kept) |-> kept[i].val["text"]]

DumpsNoCatch(items) ==
    IF JsonSerializable(PyList(items)) THEN PyStr(JsonList(items))
    ELSE PyRaised("TypeError")

\* try: json.dumps(content, indent=2) except (TypeError, ValueError): str(content)
DumpsOrStr(items) ==
    IF JsonSerializable(PyList(items)) THEN PyStr(JsonList(items))
    ELSE PyStr(PyStrList(items))

\* A normalizer that extracts the texts before it looks at the first item.
NormalizeListTextsFirst(items) ==
    LET text_items == TextItems(items)
    IN IF Len(text_items) = 0 THEN PyStr(PyStrList(items))
       ELSE IF Len(text_items) = 1 THEN PyStr(text_items[1])
       ELSE PyStr(JsonList([i \in 1..Len(text_items) |-> PyStr(text_items[i])]))

\* A normalizer that renders the whole list as soon as one item has no text.
NormalizeListAllOrNothing(items) ==
    IF ~HasText(items[1]) THEN DumpsOrStr(items)
    ELSE LET text_items == TextItems(items)
         IN IF Len(text_items) < Len(items) THEN PyStr(PyStrList(items))
            ELSE IF Len(text_items) = 1 THEN PyStr(text_items[1])
            ELSE PyStr(JsonList([i \in 1..Len(text_items) |-> PyStr(text_items[i])]))

\* The body of normalize_mcp_content past its pass-through test: content is
\* a non-empty list.
NormalizeList(items) ==
    IF ~HasText(items[1]) THEN DumpsOrStr(items)
    ELSE LET text_items == TextItems(items)
         IN IF Len(text_items) = 0 THEN PyStr(PyStrList(items))
            ELSE IF Len(text_items) = 1 THEN PyStr(text_items[1])
            ELSE PyStr(JsonList([i \in 1..Len(text_items) |-> PyStr(text_items[i])]))

\* A normalizer that tests only isinstance(content, list).
normalize_any_list(c) ==
    IF c.kind # "list" THEN c
    ELSE IF Len(c.val) = 0 THEN DumpsOrStr(c.val)
    ELSE NormalizeList(c.val)

normalize_mcp_content(c) ==
    IF c.kind # "list" \/ Len(c.val) = 0 THEN c
    ELSE NormalizeList(c.val)

(***************************************************************************)
(* Configuration and the approval gate                                     *)
(***************************************************************************)
\* The servers in the order the configuration declares them.
Servers == <<"jenkins", "cluster-monitor">>
ServerIds == {Servers[i] : i \in 1..Len(Servers)}

GateTools == {"start_job", "list_jobs"}

\* The decisions the gate knows, and the lists a document may give: the
\* last one names a decision the gate does not know.
AllowedDecisions == {"approve", "reject", "edit"}
DecisionLists == {<<"approve", "reject">>, <<"approve">>, <<"approve", "ignore">>}
Descriptions == {<<"Starts a Jenkins job">>}

EmptyDict == [x \in {} |-> <<>>]

\* One tool's entry of an approval table: a dict that may lack either key.
RuleDicts ==
    UNION {{f \in [keys -> DecisionLists \cup Descriptions] :
               /\ ("allowed_decisions" \in keys => f["allowed_decisions"] \in DecisionLists)
               /\ ("description" \in keys => f["description"] \in Descriptions)}
           : keys \in SUBSET {"allowed_decisions", "description"}}

\* An approval table: tool name -> entry.
TablesOver(rules) == UNION {[names -> rules] : names \in SUBSET GateTools}

NoTable == [kind |-> "none", val |-> EmptyDict]
Table(f) == [kind |-> "dict", val |-> f]

\* MCPServerConfig.from_dict, its approval part: every entry gets both fields.
from_dict(tools_data) ==
    [t \in DOMAIN tools_data |->
        [allowed_decisions |->
            IF "allowed_decisions" \in DOMAIN tools_data[t]
               THEN tools_data[t]["allowed_decisions"]
            ELSE <<"approve", "reject", "edit">>,
         description |->
            IF "description" \in DOMAIN tools_data[t]
               THEN tools_data[t]["description"]
            ELSE <<t, " pending approval">>]]

\* Config.get_approval_tools_for_server
get_approval_tools_for_server(servers, server_id) ==
    IF server_id \notin DOMAIN servers THEN EmptyDict
    ELSE [t \in DOMAIN servers[server_id] |->
            [allowed_decisions |-> servers[server_id][t].allowed_decisions,
             description |-> servers[server_id][t].description]]

\* dict.update: the entries of other replace those of d under the same key.
DictUpdate(d, other) ==
    [k \in DOMAIN d \cup DOMAIN other |-> IF k \in DOMAIN other THEN other[k] ELSE d[k]]

\* An accumulation in which an entry, once written, stays.
RECURSIVE AllToolsKeepingFirst(_, _)
AllToolsKeepingFirst(servers, n) ==
    IF n = 0 THEN EmptyDict
    ELSE DictUpdate(get_approval_tools_for_server(servers, Servers[n]),
                    AllToolsKeepingFirst(servers, n - 1))

get_all_approval_tools_first_wins(servers) == AllToolsKeepingFirst(servers, Len(Servers))

\* all_tools after the first n iterations of "for server_id in self.servers".
RECURSIVE AllToolsAfter(_, _)
AllToolsAfter(servers, n) ==
    IF n = 0 THEN EmptyDict
    ELSE DictUpdate(AllToolsAfter(servers, n - 1),
                    get_approval_tools_for_server(servers, Servers[n]))

\* Config.get_all_approval_tools
get_all_approval_tools(servers) == AllToolsAfter(servers, Len(Servers))

\* The methods class Config defines.
ConfigMethods ==
    {"get_mcp_client_config", "get_approval_tools_for_server", "get_all_approval_tools"}

build_interrupt_on_config_defaults(approval_tools) ==
    [t \in DOMAIN approval_tools |->
        [allowed_decisions |-> <<"approve", "reject">>,
         description |-> <<t, " requires approval">>]]

build_interrupt_on_config(approval_tools) ==
    [t \in DOMAIN approval_tools |->
        [allowed_decisions |->
            IF "allowed_decisions" \in DOMAIN approval_tools[t]
               THEN approval_tools[t]["allowed_decisions"]
            ELSE <<"approve", "reject">>,
         description |->
            IF "description" \in DOMAIN approval_tools[t]
               THEN approval_tools[t]["description"]
            ELSE <<t, " requires approval">>]]

\* The entries of a middleware list.
HumanInTheLoopMiddleware(interrupt_on) == [kind |-> "hitl", interrupt_on |-> interrupt_on]
handle_tool_errors == [kind |-> "handle_tool_errors", interrupt_on |-> EmptyDict]

NotBuilt == [built |-> FALSE, tools |-> {}, middleware |-> <<>>]

\* if approval_tools: a table that is None or empty is false.
Truthy(table) == table.kind = "dict" /\ DOMAIN table.val # {}

\* create_subagent: the middleware stack it hands to create_agent.
create_subagent(tools, approval_tools) ==
    [built |-> TRUE,
     tools |-> tools,
     middleware |->
        (IF Truthy(approval_tools)
            THEN <<HumanInTheLoopMiddleware(build_interrupt_on_config(approval_tools.val))>>
         ELSE <<>>) \o <<handle_tool_errors>>]

\* build_subagents_and_tools: per server, the arguments of its create_subagent
\* call; a server without tools is skipped.
SubagentArgs(by_server, approval_tools_by_server) ==
    LET tables == IF Truthy(approval_tools_by_server)
                     THEN approval_tools_by_server.val ELSE EmptyDict
    IN [s \in {x \in ServerIds : by_server[x] # {}} |->
            IF s \in DOMAIN tables THEN Table(tables[s]) ELSE Table(EmptyDict)]

build_subagents_and_tools(by_server, approval_tools_by_server) ==
    LET args == SubagentArgs(by_server, approval_tools_by_server)
    IN [s \in ServerIds |->
            IF s \in DOMAIN args THEN create_subagent(by_server[s], args[s])
            ELSE NotBuilt]

\* _init_agent, "Build middleware stack": the list it hands to create_agent,
\* from the value of approval_tools.
SupervisorMiddleware(approval_tools) ==
    <<handle_tool_errors>> \o
        (IF Truthy(approval_tools)
            THEN <<HumanInTheLoopMiddleware(approval_tools.val)>>
         ELSE <<>>)

\* The gates of an agent that name the tool.
GatesFor(agent, t) ==
    {i \in 1..Len(agent.middleware) :
        /\ agent.middleware[i].kind = "hitl"
        /\ t \in DOMAIN agent.middleware[i].interrupt_on}

NotPassed == [kind |-> "not called", val |-> EmptyDict]

GateIdle ==
    /\ cfg_servers = [s \in ServerIds |-> EmptyDict]
    /\ tools_by_server = [s \in ServerIds |-> {}]
    /\ sub_args = [s \in ServerIds |-> NotPassed]
    /\ agents = [s \in ServerIds |-> NotBuilt]
    /\ sup_pc = "start"
    /\ sup_middleware = <<>>
    /\ sup_approval = NotPassed
    /\ all_approval = NotPassed
    /\ tool_state = [s \in ServerIds |-> [t \in GateTools |-> "idle"]]
    /\ tool_offered = [s \in ServerIds |-> [t \in GateTools |-> <<>>]]

\* A tool of a built sub-agent is called: a gate that names it raises the
\* approval interrupt, otherwise the tool runs.
InvokeTool(s, t) ==
    /\ agents[s].built
    /\ t \in agents[s].tools
    /\ tool_state[s][t] = "idle"
    /\ LET gates == GatesFor(agents[s], t)
       IN IF gates # {}
             THEN LET g == agents[s].middleware[CHOOSE i \in gates : \A j \in gates : i <= j]
                  IN /\ tool_state' = [tool_state EXCEPT ![s][t] = "paused"]
                     /\ tool_offered' =
                           [tool_offered EXCEPT ![s][t] = g.interrupt_on[t].allowed_decisions]
          ELSE /\ tool_state' = [tool_state EXCEPT ![s][t] = "executed"]
               /\ UNCHANGED tool_offered
    /\ UNCHANGED <<cfg_servers, tools_by_server, sub_args, agents, sup_pc, sup_middleware,
                   sup_approval, all_approval, normVars, mwVars, routerVars, anaVars>>

\* The human answers a pending interrupt with one of the offered decisions.
Decide(s, t) ==
    /\ tool_state[s][t] = "paused"
    /\ \E i \in 1..Len(tool_offered[s][t]) :
          tool_state' = [tool_state EXCEPT ![s][t] =
                            IF tool_offered[s][t][i] = "reject" THEN "rejected"
                            ELSE "executed"]
    /\ UNCHANGED <<cfg_servers, tools_by_server, sub_args, agents, sup_pc, sup_middleware,
                   sup_approval, all_approval, tool_offered, normVars, mwVars, routerVars, anaVars>>

(***************************************************************************)
(* load_mcp_tools: grouping the discovered tools by server                 *)
(***************************************************************************)
MaxTools == 2      \* most tools discovered

\* Server ids and tool names, as atoms.
JenkinsId == <<"jenkins">>
ClusterMonitorId == <<"cluster", "-", "monitor">>
ArgoId == <<"argo">>
ClusterId == <<"cluster">>
ServerIdPool == {JenkinsId, ClusterMonitorId, ArgoId, ClusterId}

ToolNamePool ==
    { <<"jenkins", "_", "trigger">>,
      <<"Jenkins", "_", "list">>,
      <<"cluster", "_", "monitor", "_", "list">>,
      <<"argo", "_", "build">>,
      <<"list", "_", "job", "s">>,
      <<"hive", "_", "status">>,
      <<"get", "_", "date">> }

\* str.lower()
Lower(name) == [i \in 1..Len(name) |-> IF name[i] = "Jenkins" THEN "jenkins" ELSE name[i]]

\* server_id.replace('-', '_')
DashesToUnderscores(id) == [i \in 1..Len(id) |-> IF id[i] = "-" THEN "_" ELSE id[i]]

\* str.startswith and the substring test `kw in name`
StartsWith(name, prefix) ==
    Len(prefix) <= Len(name) /\ SubSeq(name, 1, Len(prefix)) = prefix
Contains(name, kw) ==
    \E i \in 1..Len(name) :
        i + Len(kw) - 1 <= Len(name) /\ SubSeq(name, i, i + Len(kw) - 1) = kw

ClusterKeywords == {<<"cluster">>, <<"hive">>, <<"owner">>}
JenkinsKeywords == {<<"job">>, <<"build">>, <<"jenkins">>, <<"test", "_", "matrix">>}

Assigned(id) == [ok |-> TRUE, server |-> id]
KeyErrorFor(id) == [ok |-> FALSE, server |-> id]

\* A grouping that asks the keyword tables first.
GroupOfKeywordFirst(servers, tool) ==
    LET tool_name == Lower(tool)
        ids == {servers[i] : i \in 1..Len(servers)}
        prefixed == {i \in 1..Len(servers) :
                        StartsWith(tool_name, DashesToUnderscores(servers[i]) \o <<"_">>)}
    IN IF \E kw \in ClusterKeywords : Contains(tool_name, kw)
          THEN IF ClusterMonitorId \in ids THEN Assigned(ClusterMonitorId)
               ELSE KeyErrorFor(ClusterMonitorId)
       ELSE IF \E kw \in JenkinsKeywords : Contains(tool_name, kw)
          THEN IF JenkinsId \in ids THEN Assigned(JenkinsId)
               ELSE KeyErrorFor(JenkinsId)
       ELSE IF prefixed # {}
          THEN Assigned(servers[CHOOSE i \in prefixed : \A j \in prefixed : i <= j])
       ELSE Assigned(servers[1])

\* A grouping whose last resort is the last server.
GroupOfFallbackLast(servers, tool) ==
    LET tool_name == Lower(tool)
        ids == {servers[i] : i \in 1..Len(servers)}
        prefixed == {i \in 1..Len(servers) :
                        StartsWith(tool_name, DashesToUnderscores(servers[i]) \o <<"_">>)}
    IN IF prefixed # {}
          THEN Assigned(servers[CHOOSE i \in prefixed : \A j \in prefixed : i <= j])
       ELSE IF \E kw \in ClusterKeywords : Contains(tool_name, kw)
          THEN IF ClusterMonitorId \in ids THEN Assigned(ClusterMonitorId)
               ELSE KeyErrorFor(ClusterMonitorId)
       ELSE IF \E kw \in JenkinsKeywords : Contains(tool_name, kw)
          THEN IF JenkinsId \in ids THEN Assigned(JenkinsId)
               ELSE KeyErrorFor(JenkinsId)
       ELSE Assigned(servers[Len(servers)])

\* The group one tool is appended to, or the KeyError of tools_by_server[...].
GroupOf(servers, tool) ==
    LET tool_name == Lower(tool)
        ids == {servers[i] : i \in 1..Len(servers)}
        prefixed == {i \in 1..Len(servers) :
                        StartsWith(tool_name, DashesToUnderscores(servers[i]) \o <<"_">>)}
    IN IF prefixed # {}
          THEN Assigned(servers[CHOOSE i \in prefixed : \A j \in prefixed : i <= j])
       ELSE IF \E kw \in ClusterKeywords : Contains(tool_name, kw)
          THEN IF ClusterMonitorId \in ids THEN Assigned(ClusterMonitorId)
               ELSE KeyErrorFor(ClusterMonitorId)
       ELSE IF \E kw \in JenkinsKeywords : Contains(tool_name, kw)
          THEN IF JenkinsId \in ids THEN Assigned(JenkinsId)
               ELSE KeyErrorFor(JenkinsId)
       ELSE Assigned(servers[1])

\* The loop over all_tools from tool i on; groups maps a server id to the
\* indices of the tools appended to it so far.
RECURSIVE GroupFrom(_, _, _, _)
GroupFrom(servers, tools, i, groups) ==
    IF i > Len(tools) THEN [status |-> "returned", groups |-> groups, key |-> <<>>]
    ELSE LET g == GroupOf(servers, tools[i])
         IN IF ~g.ok THEN [status |-> "raised", groups |-> groups, key |-> g.server]
            ELSE GroupFrom(servers, tools, i + 1,
                           [groups EXCEPT ![g.server] = Append(@, i)])

load_mcp_tools(servers, tools) ==
    GroupFrom(servers, tools, 1, [id \in {servers[i] : i \in 1..Len(servers)} |-> <<>>])

RouterPending == [status |-> "pending", groups |-> EmptyDict, key |-> <<>>]

RouterIdle ==
    /\ rt_servers = <<>>
    /\ rt_tools = <<>>
    /\ rt_result = RouterPending

\* Non-empty orderings of distinct server ids.
ServerOrders ==
    {o \in UNION {[1..n -> ServerIdPool] : n \in 1..Cardinality(ServerIdPool)} :
        \A i, j \in DOMAIN o : i # j => o[i] # o[j]}

ToolLists == UNION {[1..n -> ToolNamePool] : n \in 0..MaxTools}

(***************************************************************************)
(* Log analysis: the graph of src/agents/analysis_agent.py, the parse step *)
(* it shares with JenkinsAnalysisAgent.analyze_logs, create_analysis_prompt*)
(***************************************************************************)
\* AgentState as a run starts: the caller supplies every declared key, the
\* Optional ones as None.
InitialState ==
    [logs |-> PyNone, analysis |-> PyNone, summary |-> PyNone, error |-> PyNone,
     status |-> PyNone, reasoning |-> {}]

NotParsed == [kind |-> "pending", summary |-> PyNone, analysis |-> PyNone]
NoPrompt == [kind |-> "pending", val |-> <<>>]

GraphIdle ==
    /\ g_env = [jenkins |-> TRUE, llm |-> TRUE]
    /\ g_node = "START"
    /\ g_state = InitialState
    /\ g_trace = <<>>
    /\ g_calls = <<>>

ParseIdle == p_response = PyNone /\ p_graph = NotParsed /\ p_agent = NotParsed

PromptIdle ==
    /\ pr_logs = <<>>
    /\ pr_types = <<>>
    /\ pr_prompt = NoPrompt
    /\ pr_agents_prompt = NoPrompt

AnaIdle == GraphIdle /\ ParseIdle /\ PromptIdle

(***************************************************************************)
(* Texts whose length matters (logs, model responses) are sequences of     *)
(* runs [ch, n]: n copies of the character ch, or, when ch is one of the   *)
(* words below, the first n characters of that word.  A text is kept in    *)
(* canonical form: no empty run, no two neighbouring runs of the same      *)
(* character; two texts are equal exactly when their canonical forms are.  *)
(***************************************************************************)
SummaryMarker == "SUMMARY:"
DetailedMarker == "DETAILED ANALYSIS:"
Ellipsis == "..."
TruncatedMarker == "\n\n... [TRUNCATED] ...\n\n"

\* The fixed text of the two prompts, in pieces; ~~~ stands for the fence of
\* three backquotes.
PromptIntro == "Analyze the following Jenkins build logs and provide insights.\n\nANALYSIS TYPES REQUESTED:\n"
AgentsPromptIntro == "Analyze the following Jenkins build logs focusing on these aspects:\n\n"
BuildLogsOpen == "\n\nBUILD LOGS:\n~~~\n"
PromptFormat == "\n~~~\n\nPlease provide your analysis in the following format: ... DETAILED ANALYSIS:\n"
AgentsPromptFormat == "\n~~~\n\nProvide your analysis in this format: ... clear headings and bullet points.]"
OverallStatus == "\n1. **Overall Status**: [What happened in this build?]"
SummaryType == "Summary"
SummaryItem == "- Summary: overall build status and key outcomes"
CompleteAnalysis == "- Complete analysis of all aspects"

Words ==
    {SummaryMarker, DetailedMarker, Ellipsis, TruncatedMarker, PromptIntro, AgentsPromptIntro,
     BuildLogsOpen, PromptFormat, AgentsPromptFormat, OverallStatus, SummaryType, SummaryItem,
     CompleteAnalysis}

\* len() of each word
WordLen(w) ==
    CASE w = SummaryMarker -> 8
      [] w = DetailedMarker -> 18
      [] w = Ellipsis -> 3
      [] w = TruncatedMarker -> 23
      [] w = PromptIntro -> 90
      [] w = AgentsPromptIntro -> 69
      [] w = BuildLogsOpen -> 18
      [] w = PromptFormat -> 168
      [] w = AgentsPromptFormat -> 206
      [] w = OverallStatus -> 54
      [] w = SummaryType -> 7
      [] w = SummaryItem -> 48
      [] w = CompleteAnalysis -> 34

Run(ch, n) == [ch |-> ch, n |-> n]
Whole(w) == Run(w, WordLen(w))
Text(runs) == [kind |-> "str", val |-> runs]

RECURSIVE Canon(_)
Canon(t) ==
    IF t = <<>> THEN <<>>
    ELSE LET h == Head(t)
             rest == Canon(Tail(t))
         IN IF h.n = 0 THEN rest
            ELSE IF rest # <<>> /\ h.ch \notin Words /\ rest[1].ch = h.ch
               THEN <<Run(h.ch, h.n + rest[1].n)>> \o Tail(rest)
            ELSE <<h>> \o rest

\* a + b
Concat(a, b) == Canon(a \o b)

\* len(t)
RECURSIVE StrLen(_)
StrLen(t) == IF t = <<>> THEN 0 ELSE Head(t).n + StrLen(Tail(t))

\* t[:k], k >= 0
RECURSIVE SliceTo(_, _)
SliceTo(t, k) ==
    IF k <= 0 \/ t = <<>> THEN <<>>
    ELSE IF Head(t).n <= k THEN <<Head(t)>> \o SliceTo(Tail(t), k - Head(t).n)
    ELSE <<Run(Head(t).ch, k)>>

\* t[-k:], k > 0, of a text of character runs: the whole text when it has
\* no more than k characters.
RECURSIVE SliceFromEnd(_, _)
SliceFromEnd(t, k) ==
    IF k <= 0 \/ t = <<>> THEN <<>>
    ELSE LET last == t[Len(t)]
             front == SubSeq(t, 1, Len(t) - 1)
         IN IF last.n <= k THEN SliceFromEnd(front, k - last.n) \o <<last>>
            ELSE <<Run(last.ch, k)>>

Whitespace == {" ", "\n"}

\* str.strip()
RECURSIVE LStrip(_)
LStrip(t) == IF t # <<>> /\ Head(t).ch \in Whitespace THEN LStrip(Tail(t)) ELSE t
RECURSIVE RStrip(_)
RStrip(t) ==
    IF t # <<>> /\ t[Len(t)].ch \in Whitespace THEN RStrip(SubSeq(t, 1, Len(t) - 1)) ELSE t
Strip(t) == RStrip(LStrip(t))

\* `w in t`, t.replace(w, "") and t.split(w, 1) for a word w
HasWord(t, w) == \E i \in 1..Len(t) : t[i] = Whole(w)
RemoveWord(t, w) == Canon(SelectSeq(t, LAMBDA r : r # Whole(w)))
SplitOnce(t, w) ==
    IF HasWord(t, w)
       THEN LET i == CHOOSE k \in 1..Len(t) :
                        t[k] = Whole(w) /\ \A j \in 1..(k - 1) : t[j] # Whole(w)
            IN <<SubSeq(t, 1, i - 1), SubSeq(t, i + 1, Len(t))>>
    ELSE <<t>>

(***************************************************************************)
(* The parse step                                                          *)
(***************************************************************************)
MaxRuns == 5       \* most runs a model response is drawn from

SummaryLimit == 500

\* response.content: a text, or content blocks (a list)
ContentBlocks == [kind |-> "list", val |-> <<>>]
ResponsePool ==
    {Run("x", 1), Run("x", SummaryLimit - 1), Run(" ", 1),
     Whole(SummaryMarker), Whole(DetailedMarker)}
ResponseTexts == {Canon(t) : t \in UNION {[1..n -> ResponsePool] : n \in 0..MaxRuns}}
Responses == {Text(t) : t \in ResponseTexts} \cup {ContentBlocks}

Str(atom) == PyStr(<<atom>>)

\* A parse step that cuts the fallback summary one character short.
parse_response_node_short(state) ==
    LET st == [state EXCEPT !.reasoning = @ \cup {"parse_response"}]
        full_analysis == state.analysis
    IN IF full_analysis.kind # "str"
          THEN [st EXCEPT !.error = PyStr(<<"Failed to parse response: ", "TypeError">>),
                          !.status = Str("error")]
       ELSE [st EXCEPT !.summary = Text(Concat(SliceTo(full_analysis.val, SummaryLimit - 1),
                                                <<Whole(Ellipsis)>>)),
                       !.status = Str("success")]

\* _parse_response_node
parse_response_node(state) ==
    LET st == [state EXCEPT !.reasoning = @ \cup {"parse_response"}]
        full_analysis == state.analysis
    IN IF full_analysis.kind # "str"     \* TypeError, caught by except Exception
          THEN [st EXCEPT !.error = PyStr(<<"Failed to parse response: ", "TypeError">>),
                          !.status = Str("error")]
       ELSE IF HasWord(full_analysis.val, SummaryMarker)
          THEN LET parts == SplitOnce(full_analysis.val, DetailedMarker)
               IN [st EXCEPT !.summary = Text(Strip(RemoveWord(parts[1], SummaryMarker))),
                             !.analysis = Text(IF Len(parts) > 1 THEN Strip(parts[2]) ELSE <<>>),
                             !.status = Str("success")]
       ELSE [st EXCEPT !.summary = Text(Concat(SliceTo(full_analysis.val, SummaryLimit),
                                                <<Whole(Ellipsis)>>)),
                       !.status = Str("success")]

ParseResult(summary, analysis) == [kind |-> "parsed", summary |-> summary, analysis |-> analysis]
ParseFailed == [kind |-> "failed", summary |-> PyNone, analysis |-> PyNone]

\* JenkinsAnalysisAgent.analyze_logs from "Parse response" on: the summary
\* and analysis of the dict it returns, or the exception it re-raises.
analyze_logs_parse(full_analysis) ==
    IF full_analysis.kind # "str" THEN ParseFailed
    ELSE IF HasWord(full_analysis.val, SummaryMarker)
       THEN LET parts == SplitOnce(full_analysis.val, DetailedMarker)
            IN ParseResult(Text(Strip(RemoveWord(parts[1], SummaryMarker))),
                      Text(IF Len(parts) > 1 THEN Strip(parts[2]) ELSE <<>>))
    ELSE ParseResult(Text(Concat(SliceTo(full_analysis.val, SummaryLimit), <<Whole(Ellipsis)>>)),
                full_analysis)

(***************************************************************************)
(* create_analysis_prompt, in src/prompt_config.py and in                  *)
(* src/agents/prompt_config.py                                             *)
(***************************************************************************)
MaxLogRuns == 3    \* most runs the logs are drawn from

max_log_length == 8000
agents_max_log_length == 8000

\* t[i:]: from the end for a negative i
SliceFrom(t, i) ==
    IF i < 0 THEN SliceFromEnd(t, 0 - i) ELSE SliceFromEnd(t, StrLen(t) - i)

LogPool ==
    {Run(ch, n) : ch \in {"a", "b"},
                  n \in {1, (max_log_length \div 2) - 1, max_log_length \div 2}}
LogTexts == {Canon(t) : t \in UNION {[1..n -> LogPool] : n \in 0..MaxLogRuns}}

\* analysis_types: none requested, or the summary
TypeLists == {<<>>, <<SummaryType>>}

Built(prompt) == [kind |-> "str", val |-> prompt]

\* A prompt that also cuts logs of exactly the limit.
create_analysis_prompt_at_limit(logs, analysis_types) ==
    LET shown == IF StrLen(logs) >= max_log_length
                    THEN Concat(Concat(SliceTo(logs, max_log_length \div 2),
                                       <<Whole(TruncatedMarker)>>),
                                SliceFrom(logs, (0 - max_log_length) \div 2))
                 ELSE logs
    IN Built(<<Whole(PromptIntro)>> \o <<Whole(BuildLogsOpen)>> \o shown
                \o <<Whole(PromptFormat)>>)

\* src/prompt_config.py
create_analysis_prompt(logs, analysis_types) ==
    LET shown == IF StrLen(logs) > max_log_length
                    THEN Concat(Concat(SliceTo(logs, max_log_length \div 2),
                                       <<Whole(TruncatedMarker)>>),
                                SliceFrom(logs, (0 - max_log_length) \div 2))
                 ELSE logs
        requested == IF analysis_types = <<>> THEN <<>> ELSE <<Whole(SummaryType)>>
        items == IF analysis_types = <<>> THEN <<>> ELSE <<Whole(OverallStatus)>>
    IN Built(<<Whole(PromptIntro)>> \o requested \o <<Whole(BuildLogsOpen)>> \o shown
                \o <<Whole(PromptFormat)>> \o items)

\* src/agents/prompt_config.py
agents_create_analysis_prompt(logs, analysis_types) ==
    LET shown == IF StrLen(logs) > agents_max_log_length
                    THEN Concat(Concat(SliceTo(logs, agents_max_log_length \div 2),
                                       <<Whole(TruncatedMarker)>>),
                                SliceFrom(logs, (0 - agents_max_log_length) \div 2))
                 ELSE logs
        analyses_text == IF analysis_types = <<>> THEN <<Whole(CompleteAnalysis)>>
                         ELSE <<Whole(SummaryItem)>>
    IN Built(<<Whole(AgentsPromptIntro)>> \o analyses_text \o <<Whole(BuildLogsOpen)>> \o shown
                \o <<Whole(AgentsPromptFormat)>>)

(***************************************************************************)
(* The nodes and edges of the log-analysis graph                           *)
(***************************************************************************)
MaxSteps == 6      \* most node executions followed in one run

Envs == [jenkins : BOOLEAN, llm : BOOLEAN]

\* What an external call does: it returns a value or raises an Exception.
CallReturned(v) == [ok |-> TRUE, val |-> v, msg |-> ""]
CallRaised(msg) == [ok |-> FALSE, val |-> PyNone, msg |-> msg]

\* jenkins_client.get_build_logs(...) and llm.ainvoke(...)
FetchOutcomes ==
    {CallReturned(Text(t)) : t \in {<<>>, <<Run("a", 1)>>}} \cup {CallRaised("ConnectionError")}
AnalyzeOutcomes ==
    {CallReturned(r) : r \in {x \in Responses : x.kind = "str" => Len(x.val) <= 2}}
        \cup {CallRaised("APITimeoutError")}

\* _fetch_logs_node; called tells whether get_build_logs was reached.
fetch_logs_node(state, env, outcome) ==
    LET st == [state EXCEPT !.reasoning = @ \cup {"fetch_logs"}]
    IN IF ~env.jenkins     \* _init_jenkins_client raises ValueError
          THEN [state |-> [st EXCEPT !.error = PyStr(<<"Failed to fetch logs: ", "ValueError">>),
                                     !.status = Str("error")],
                ok |-> FALSE, called |-> FALSE]
       ELSE IF ~outcome.ok
          THEN [state |-> [st EXCEPT !.error = PyStr(<<"Failed to fetch logs: ", outcome.msg>>),
                                     !.status = Str("error")],
                ok |-> FALSE, called |-> TRUE]
       ELSE [state |-> [st EXCEPT !.logs = outcome.val, !.status = Str("needs_analysis")],
             ok |-> TRUE, called |-> TRUE]

\* _analyze_logs_node; called tells whether llm.ainvoke was reached.
analyze_logs_node(state, env, outcome) ==
    LET st == [state EXCEPT !.reasoning = @ \cup {"analyze_logs"}]
    IN IF ~env.llm         \* _init_llm raises ValueError
          THEN [state |-> [st EXCEPT !.error = PyStr(<<"Failed to analyze logs: ", "ValueError">>),
                                     !.status = Str("error")],
                ok |-> FALSE, called |-> FALSE]
       ELSE IF state.logs.kind # "str"     \* len(None) in create_analysis_prompt
          THEN [state |-> [st EXCEPT !.error = PyStr(<<"Failed to analyze logs: ", "TypeError">>),
                                     !.status = Str("error")],
                ok |-> FALSE, called |-> FALSE]
       ELSE IF ~outcome.ok
          THEN [state |-> [st EXCEPT !.error = PyStr(<<"Failed to analyze logs: ", outcome.msg>>),
                                     !.status = Str("error")],
                ok |-> FALSE, called |-> TRUE]
       ELSE [state |-> [st EXCEPT !.analysis = outcome.val, !.status = Str("needs_parsing")],
             ok |-> TRUE, called |-> TRUE]

\* Routers that never take the error exit, or go back to the start.
route_after_fetch_always_on(state) == "analyze_logs"
route_after_analysis_retry(state) ==
    IF state.status = Str("error") THEN "fetch_logs" ELSE "parse_response"

\* _route_after_fetch and _route_after_analysis
route_after_fetch(state) ==
    IF state.status = Str("error") THEN "error" ELSE "analyze_logs"
route_after_analysis(state) ==
    IF state.status = Str("error") THEN "error" ELSE "parse_response"

\* A graph whose parse step also leaves through the error node on failure.
NextNodeParseRouted(node, state) ==
    CASE node = "START" -> "fetch_logs"
      [] node = "fetch_logs" -> route_after_fetch(state)
      [] node = "analyze_logs" -> route_after_analysis(state)
      [] node = "parse_response" ->
            IF state.status = Str("error") THEN "error" ELSE "END"
      [] node = "error" -> "END"

\* The edges _build_graph adds: the node that follows node in this state.
NextNode(node, state) ==
    CASE node = "START" -> "fetch_logs"
      [] node = "fetch_logs" -> route_after_fetch(state)
      [] node = "analyze_logs" -> route_after_analysis(state)
      [] node = "parse_response" -> "END"
      [] node = "error" -> "END"

Ran(node, ok) == [node |-> node, ok |-> ok]

(***************************************************************************)
(* handle_tool_errors                                                      *)
(***************************************************************************)
INTERRUPT_EXCEPTION_NAMES_without_node == {"GraphInterrupt", "Interrupt"}

INTERRUPT_EXCEPTION_NAMES == {"GraphInterrupt", "NodeInterrupt", "Interrupt"}

\* The class langgraph.types.Interrupt the module imports.
InterruptClass == "langgraph.types.Interrupt"

\* An exception: the name of its class, the classes it is an instance of
\* besides its own and BaseException, and its message.
Exc(name, bases, msg) == [name |-> name, bases |-> bases, msg |-> msg]
NoExc == Exc("", {}, <<>>)

ExcClasses ==
    { <<"GraphInterrupt", {"Exception"}>>,
      <<"NodeInterrupt", {"langgraph.errors.GraphInterrupt", "Exception"}>>,
      <<"Interrupt", {InterruptClass, "Exception"}>>,
      <<"Interrupt", {"Exception"}>>,          \* an unrelated class of that name
      <<"ApprovalPause", {"langgraph.errors.GraphInterrupt", "Exception"}>>,
      <<"PauseSignal", {InterruptClass, "Exception"}>>,
      <<"ValueError", {"Exception"}>>,
      <<"CancelledError", {}>>,
      <<"KeyboardInterrupt", {}>>,
      <<"SystemExit", {}>> }

Messages == {<<>>, <<"a">>}

Exceptions == {Exc(k[1], k[2], m) : k \in ExcClasses, m \in Messages}

\* A handler result: a ToolMessage, or an object with no content attribute
\* (a Command).
ToolMessage(c, id) ==
    [type |-> "ToolMessage", has_content |-> TRUE, content |-> c, tool_call_id |-> id]
Command == [type |-> "Command", has_content |-> FALSE, content |-> PyNone, tool_call_id |-> ""]
NoResult == [type |-> "", has_content |-> FALSE, content |-> PyNone, tool_call_id |-> ""]

Returned(r) == [kind |-> "return", result |-> r, exc |-> NoExc]
Raised(e) == [kind |-> "raise", result |-> NoResult, exc |-> e]
Nothing == [kind |-> "none", result |-> NoResult, exc |-> NoExc]

\* The calls in flight and the tool they name.
CallIds == {"call_1", "call_2"}
ToolName == "start_job"

\* request.tool_call of call c: a dict that may lack either key.
Requests(c) ==
    {[k \in keys |-> IF k = "id" THEN c ELSE ToolName] : keys \in SUBSET {"name", "id"}}

\* The payloads a tool hands back.
ToolContents == {c \in Contents : c.kind \in {"str", "list"} /\ (c.kind = "list" => Len(c.val) <= 1)}

\* What the wrapped handler may do with a request: return a message for the
\* call, return an object without content, or raise.
HandlerOutcomes(req) ==
    LET id == IF "id" \in DOMAIN req THEN req["id"] ELSE ""
    IN {Returned(ToolMessage(c, id)) : c \in ToolContents}
         \cup {Returned(Command)}
         \cup {Raised(e) : e \in Exceptions}

CatchesException(e) == "Exception" \in e.bases

\* An except clause that lets a task's cancellation through.
CatchesButCancellation(e) == e.name # "CancelledError"

\* except BaseException as e
Catches(e) == TRUE

\* A classification by isinstance against the three interrupt kinds.
IsInterruptBySubtype(e) ==
    \/ InterruptClass \in e.bases
    \/ e.bases \cap {"langgraph.errors.GraphInterrupt", "langgraph.errors.NodeInterrupt"} # {}

\* type(e).__name__ in INTERRUPT_EXCEPTION_NAMES, or isinstance(e, Interrupt)
IsInterrupt(e) ==
    \/ e.name \in INTERRUPT_EXCEPTION_NAMES
    \/ InterruptClass \in e.bases

\* request.tool_call.get("name", "unknown")
ToolNameOf(req) == IF "name" \in DOMAIN req THEN req["name"] ELSE "unknown"

ErrorMsgWithoutKind(req, e) ==
    <<"ERROR in tool '", ToolNameOf(req), "': ">> \o e.msg

\* f"ERROR in tool '{tool_name}': {type(e).__name__}: {str(e)}"
ErrorMsg(req, e) ==
    <<"ERROR in tool '", ToolNameOf(req), "': ", e.name, ": ">> \o e.msg

\* The except clause: [outcome, logged].
OnException(req, e) ==
    IF ~Catches(e) \/ IsInterrupt(e)
       THEN [outcome |-> Raised(e), logged |-> <<>>]
    ELSE IF "id" \notin DOMAIN req
       THEN [outcome |-> Raised(Exc("KeyError", {"Exception"}, <<"'id'">>)),
             logged |-> <<ErrorMsg(req, e)>>]
    ELSE [outcome |-> Returned(ToolMessage(PyStr(ErrorMsg(req, e)), req["id"])),
          logged |-> <<ErrorMsg(req, e)>>]

AttributeError ==
    Exc("AttributeError", {"Exception"},
        <<"'Command' object has no attribute 'content'">>)

\* A wrapper that hands every returned result back as it came.
AfterHandlerUnnormalized(req, h) ==
    IF h.kind = "raise" THEN OnException(req, h.exc)
    ELSE [outcome |-> Returned(h.result), logged |-> <<>>]

\* The body of handle_tool_errors once handler(request) has completed.
AfterHandler(req, h) ==
    IF h.kind = "raise" THEN OnException(req, h.exc)
    ELSE IF ~h.result.has_content THEN OnException(req, AttributeError)
    ELSE IF h.result.content.kind = "list"
         THEN LET n == normalize_mcp_content(h.result.content)
              IN IF n.kind = "raised"
                    THEN OnException(req, Exc(n.val[1], {"Exception"}, <<>>))
                 ELSE [outcome |-> Returned([h.result EXCEPT !.content = n]),
                       logged |-> <<>>]
    ELSE [outcome |-> Returned(h.result), logged |-> <<>>]

MwIdle ==
    /\ mw_pc = [c \in CallIds |-> "idle"]
    /\ mw_request = [c \in CallIds |-> [k \in {} |-> ""]]
    /\ mw_handler_calls = [c \in CallIds |-> 0]
    /\ mw_handled = [c \in CallIds |-> Nothing]
    /\ mw_outcome = [c \in CallIds |-> Nothing]
    /\ mw_logged = [c \in CallIds |-> <<>>]

NormIdle == content = PyNone /\ normalized = NotCalled

InitMw == MwIdle /\ NormIdle /\ GateIdle /\ RouterIdle /\ AnaIdle

\* A wrapper that calls the handler a second time.
CallHandlerTwice(c) ==
    /\ mw_pc[c] = "idle"
    /\ \E req \in Requests(c) : mw_request' = [mw_request EXCEPT ![c] = req]
    /\ mw_handler_calls' = [mw_handler_calls EXCEPT ![c] = @ + 2]
    /\ mw_pc' = [mw_pc EXCEPT ![c] = "awaiting"]
    /\ UNCHANGED <<mw_handled, mw_outcome, mw_logged, normVars, gateVars, routerVars, anaVars>>

\* The agent loop issues call c: handle_tool_errors runs to its await.
CallHandler(c) ==
    /\ mw_pc[c] = "idle"
    /\ \E req \in Requests(c) : mw_request' = [mw_request EXCEPT ![c] = req]
    /\ mw_handler_calls' = [mw_handler_calls EXCEPT ![c] = @ + 1]
    /\ mw_pc' = [mw_pc EXCEPT ![c] = "awaiting"]
    /\ UNCHANGED <<mw_handled, mw_outcome, mw_logged, normVars, gateVars, routerVars, anaVars>>

\* A wrapper that keeps the request in a slot shared by all invocations: it
\* answers with the request of a call still in flight when there is one.
HandlerCompletesSharedRequest(c) ==
    /\ mw_pc[c] = "awaiting"
    /\ \E h \in HandlerOutcomes(mw_request[c]) :
          LET others == {d \in CallIds \ {c} : mw_pc[d] = "awaiting"}
              req == IF others = {} THEN mw_request[c]
                     ELSE mw_request[CHOOSE d \in others : TRUE]
              r == AfterHandler(req, h)
          IN /\ mw_handled' = [mw_handled EXCEPT ![c] = h]
             /\ mw_outcome' = [mw_outcome EXCEPT ![c] = r.outcome]
             /\ mw_logged' = [mw_logged EXCEPT ![c] = @ \o r.logged]
    /\ mw_pc' = [mw_pc EXCEPT ![c] = "done"]
    /\ UNCHANGED <<mw_request, mw_handler_calls, normVars, gateVars, routerVars, anaVars>>

\* The handler completes and handle_tool_errors runs to its end.
HandlerCompletes(c) ==
    /\ mw_pc[c] = "awaiting"
    /\ \E h \in HandlerOutcomes(mw_request[c]) :
          LET r == AfterHandler(mw_request[c], h)
          IN /\ mw_handled' = [mw_handled EXCEPT ![c] = h]
             /\ mw_outcome' = [mw_outcome EXCEPT ![c] = r.outcome]
             /\ mw_logged' = [mw_logged EXCEPT ![c] = @ \o r.logged]
    /\ mw_pc' = [mw_pc EXCEPT ![c] = "done"]
    /\ UNCHANGED <<mw_request, mw_handler_calls, normVars, gateVars, routerVars, anaVars>>

NextMw == \E c \in CallIds : CallHandler(c) \/ HandlerCompletes(c)

SpecMw == InitMw /\ [][NextMw]_vars

(***************************************************************************)
(* handle_tool_errors nested: the supervisor's call of a sub-agent tool,   *)
(* and inside it the sub-agent's call of one of its own tools              *)
(***************************************************************************)
OuterCall == "call_1"
InnerCall == "call_2"

\* What the sub-agent's last message may say.
FinalContents == {PyStr(<<"done">>), PyStr(<<"the tool failed">>)}

\* A sub-agent tool that reports whatever its agent raised as its answer.
subagent_tool_reporting(req, inner, final) ==
    Returned(ToolMessage(final, IF "id" \in DOMAIN req THEN req["id"] ELSE ""))

\* subagent_tool, called for the supervisor's request req: agent.ainvoke is
\* awaited with no handler around it, so what the sub-agent's own tool call
\* left as raised leaves the tool as raised; otherwise the tool returns the
\* content of the sub-agent's last message, which the tool node hands back
\* as the message for the call.
subagent_tool(req, inner, final) ==
    IF inner.kind = "raise" THEN Raised(inner.exc)
    ELSE Returned(ToolMessage(final, IF "id" \in DOMAIN req THEN req["id"] ELSE ""))

\* The sub-agent issues its tool call while the supervisor's call is in flight.
SubagentCallsTool ==
    /\ mw_pc[OuterCall] = "awaiting"
    /\ CallHandler(InnerCall)

\* The sub-agent run ends (with or without having called its tool) and the
\* supervisor's handle_tool_errors runs to its end.
SubagentToolCompletes ==
    /\ mw_pc[OuterCall] = "awaiting"
    /\ mw_pc[InnerCall] # "awaiting"
    /\ \E final \in FinalContents :
          LET h == subagent_tool(mw_request[OuterCall], mw_outcome[InnerCall], final)
              r == AfterHandler(mw_request[OuterCall], h)
          IN /\ mw_handled' = [mw_handled EXCEPT ![OuterCall] = h]
             /\ mw_outcome' = [mw_outcome EXCEPT ![OuterCall] = r.outcome]
             /\ mw_logged' = [mw_logged EXCEPT ![OuterCall] = @ \o r.logged]
    /\ mw_pc' = [mw_pc EXCEPT ![OuterCall] = "done"]
    /\ UNCHANGED <<mw_request, mw_handler_calls, normVars, gateVars, routerVars, anaVars>>

NextNested ==
    \/ CallHandler(OuterCall)
    \/ SubagentCallsTool
    \/ HandlerCompletes(InnerCall)
    \/ SubagentToolCompletes

SpecNested == InitMw /\ [][NextNested]_vars

(***************************************************************************)
(* create_subagent called with any approval table                          *)
(***************************************************************************)
SubServer == "jenkins"

InitSub ==
    /\ cfg_servers = [s \in ServerIds |-> EmptyDict]
    /\ tools_by_server = [s \in ServerIds |-> IF s = SubServer THEN GateTools ELSE {}]
    /\ \E table \in {NoTable} \cup {Table(f) : f \in TablesOver(RuleDicts)} :
          sub_args = [s \in ServerIds |-> IF s = SubServer THEN table ELSE NotPassed]
    /\ agents = [s \in ServerIds |-> NotBuilt]
    /\ sup_pc = "start"
    /\ sup_middleware = <<>>
    /\ sup_approval = NotPassed
    /\ all_approval = NotPassed
    /\ tool_state = [s \in ServerIds |-> [t \in GateTools |-> "idle"]]
    /\ tool_offered = [s \in ServerIds |-> [t \in GateTools |-> <<>>]]
    /\ MwIdle /\ NormIdle /\ RouterIdle
    /\ AnaIdle

CreateSubagent(s) ==
    /\ sub_args[s] # NotPassed
    /\ ~agents[s].built
    /\ agents' = [agents EXCEPT ![s] = create_subagent(tools_by_server[s], sub_args[s])]
    /\ UNCHANGED <<cfg_servers, tools_by_server, sub_args, sup_pc, sup_middleware,
                   sup_approval, all_approval, tool_state, tool_offered,
                   normVars, mwVars, routerVars, anaVars>>

NextSub ==
    \E s \in ServerIds :
        \/ CreateSubagent(s)
        \/ \E t \in GateTools : InvokeTool(s, t) \/ Decide(s, t)

SpecSub == InitSub /\ [][NextSub]_vars

(***************************************************************************)
(* Config.get_all_approval_tools over a loaded configuration               *)
(***************************************************************************)
GetAllApprovalTools ==
    /\ all_approval = NotPassed
    /\ all_approval' = Table(get_all_approval_tools(cfg_servers))
    /\ UNCHANGED <<cfg_servers, tools_by_server, sub_args, agents, sup_pc, sup_middleware,
                   sup_approval, tool_state, tool_offered, normVars, mwVars, routerVars, anaVars>>

NextCfg == GetAllApprovalTools

(***************************************************************************)
(* The two middleware lists of the repository, each built from any         *)
(* approval table: create_subagent's, and the one _init_agent builds from  *)
(* its approval_tools (a dict: _init_agent takes its keys() first)         *)
(***************************************************************************)
ApprovalTables == {Table(f) : f \in TablesOver(RuleDicts)}

InitSup ==
    /\ cfg_servers = [s \in ServerIds |-> EmptyDict]
    /\ tools_by_server = [s \in ServerIds |-> IF s = SubServer THEN GateTools ELSE {}]
    /\ \E table \in ApprovalTables :
          sub_args = [s \in ServerIds |-> IF s = SubServer THEN table ELSE NotPassed]
    /\ agents = [s \in ServerIds |-> NotBuilt]
    /\ sup_pc = "start"
    /\ sup_middleware = <<>>
    /\ sup_approval \in ApprovalTables
    /\ all_approval = NotPassed
    /\ tool_state = [s \in ServerIds |-> [t \in GateTools |-> "idle"]]
    /\ tool_offered = [s \in ServerIds |-> [t \in GateTools |-> <<>>]]
    /\ MwIdle /\ NormIdle /\ RouterIdle
    /\ AnaIdle

\* _init_agent from "Build middleware stack" on.
BuildSupervisorMiddleware ==
    /\ sup_pc = "start"
    /\ sup_approval # NotPassed
    /\ sup_middleware' = SupervisorMiddleware(sup_approval)
    /\ sup_pc' = "ready"
    /\ UNCHANGED <<cfg_servers, tools_by_server, sub_args, agents, sup_approval,
                   all_approval, tool_state, tool_offered, normVars, mwVars, routerVars, anaVars>>

NextSup ==
    \/ \E s \in ServerIds : CreateSubagent(s)
    \/ BuildSupervisorMiddleware

SpecSup == InitSup /\ [][NextSup]_vars

(***************************************************************************)
(* SupervisorAgent._init_agent over a loaded configuration                 *)
(***************************************************************************)
\* The approval part of the configuration document, per server.
ConfigData == [ServerIds -> TablesOver({r \in RuleDicts : "description" \notin DOMAIN r})]

InitGate ==
    /\ \E data \in ConfigData : cfg_servers = [s \in ServerIds |-> from_dict(data[s])]
    /\ tools_by_server \in [ServerIds -> {{}, {"start_job"}, GateTools}]
    /\ sub_args = [s \in ServerIds |-> NotPassed]
    /\ agents = [s \in ServerIds |-> NotBuilt]
    /\ sup_pc = "start"
    /\ sup_middleware = <<>>
    /\ sup_approval = NotPassed
    /\ all_approval = NotPassed
    /\ tool_state = [s \in ServerIds |-> [t \in GateTools |-> "idle"]]
    /\ tool_offered = [s \in ServerIds |-> [t \in GateTools |-> <<>>]]
    /\ MwIdle /\ NormIdle /\ RouterIdle
    /\ AnaIdle

\* _init_agent: build_subagents_and_tools(llm, servers, tools_by_server) with
\* no approval tables, then self.config.get_approval_tools().
InitAgent ==
    /\ sup_pc = "start"
    /\ LET args == SubagentArgs(tools_by_server, NoTable)
       IN sub_args' = [s \in ServerIds |-> IF s \in DOMAIN args THEN args[s] ELSE NotPassed]
    /\ agents' = build_subagents_and_tools(tools_by_server, NoTable)
    /\ IF "get_approval_tools" \in ConfigMethods
          THEN /\ sup_pc' = "ready"
               /\ sup_middleware' = SupervisorMiddleware(sup_approval)
          ELSE /\ sup_pc' = "failed"          \* AttributeError
               /\ sup_middleware' = <<>>
    /\ UNCHANGED <<cfg_servers, tools_by_server, sup_approval, all_approval,
                   tool_state, tool_offered, normVars, mwVars, routerVars, anaVars>>

\* _init_agent installs no gate in any sub-agent, so no interrupt is ever
\* pending here and Decide has nothing to answer.
NextGate ==
    \/ InitAgent
    \/ \E s \in ServerIds, t \in GateTools : InvokeTool(s, t)

SpecGate == InitGate /\ [][NextGate]_vars

SpecCfg == InitGate /\ [][NextCfg]_vars

(***************************************************************************)
(* load_mcp_tools applied to one configuration and one discovery           *)
(***************************************************************************)
InitRouter ==
    /\ rt_servers \in ServerOrders
    /\ rt_tools \in ToolLists
    /\ rt_result = RouterPending
    /\ MwIdle /\ NormIdle /\ GateIdle
    /\ AnaIdle

LoadMcpTools ==
    /\ rt_result = RouterPending
    /\ rt_result' = load_mcp_tools(rt_servers, rt_tools)
    /\ UNCHANGED <<rt_servers, rt_tools, normVars, mwVars, gateVars, anaVars>>

NextRouter == LoadMcpTools

SpecRouter == InitRouter /\ [][NextRouter]_vars

(***************************************************************************)
(* The normalizer applied to one input                                     *)
(***************************************************************************)
InitNorm ==
    /\ content \in Contents
    /\ normalized = NotCalled
    /\ MwIdle
    /\ GateIdle
    /\ RouterIdle
    /\ AnaIdle

Normalize ==
    /\ normalized = NotCalled
    /\ normalized' = normalize_mcp_content(content)
    /\ UNCHANGED <<content, mwVars, gateVars, routerVars, anaVars>>

NextNorm == Normalize

SpecNorm == InitNorm /\ [][NextNorm]_vars

(***************************************************************************)
(* The parse step of both variants applied to one model response           *)
(***************************************************************************)
InitParse ==
    /\ p_response \in Responses
    /\ p_graph = NotParsed
    /\ p_agent = NotParsed
    /\ GraphIdle /\ PromptIdle
    /\ MwIdle /\ NormIdle /\ GateIdle /\ RouterIdle

\* _parse_response_node on the state analyze_logs left.
ParseResponseNode ==
    /\ p_graph = NotParsed
    /\ LET state == parse_response_node(
                        [InitialState EXCEPT !.analysis = p_response,
                                             !.status = Str("needs_parsing")])
       IN p_graph' = IF state.status = Str("error") THEN ParseFailed
                     ELSE ParseResult(state.summary, state.analysis)
    /\ UNCHANGED <<p_response, p_agent, graphVars, promptVars,
                   normVars, mwVars, gateVars, routerVars>>

AnalyzeLogsParse ==
    /\ p_agent = NotParsed
    /\ p_agent' = analyze_logs_parse(p_response)
    /\ UNCHANGED <<p_response, p_graph, graphVars, promptVars,
                   normVars, mwVars, gateVars, routerVars>>

NextParse == ParseResponseNode \/ AnalyzeLogsParse

SpecParse == InitParse /\ [][NextParse]_vars

(***************************************************************************)
(* Both create_analysis_prompt functions applied to the same arguments     *)
(***************************************************************************)
InitPrompt ==
    /\ pr_logs \in LogTexts
    /\ pr_types \in TypeLists
    /\ pr_prompt = NoPrompt
    /\ pr_agents_prompt = NoPrompt
    /\ GraphIdle /\ ParseIdle
    /\ MwIdle /\ NormIdle /\ GateIdle /\ RouterIdle

CreateAnalysisPrompt ==
    /\ pr_prompt = NoPrompt
    /\ pr_prompt' = create_analysis_prompt(pr_logs, pr_types)
    /\ UNCHANGED <<pr_logs, pr_types, pr_agents_prompt, graphVars, parseVars,
                   normVars, mwVars, gateVars, routerVars>>

AgentsCreateAnalysisPrompt ==
    /\ pr_agents_prompt = NoPrompt
    /\ pr_agents_prompt' = agents_create_analysis_prompt(pr_logs, pr_types)
    /\ UNCHANGED <<pr_logs, pr_types, pr_prompt, graphVars, parseVars,
                   normVars, mwVars, gateVars, routerVars>>

NextPrompt == CreateAnalysisPrompt \/ AgentsCreateAnalysisPrompt

SpecPrompt == InitPrompt /\ [][NextPrompt]_vars

(***************************************************************************)
(* One run of the log-analysis graph.  A node that was started finishes:   *)
(* its external calls return or raise.                                     *)
(***************************************************************************)
InitGraph ==
    /\ g_env \in Envs
    /\ g_node = "START"
    /\ g_state = InitialState
    /\ g_trace = <<>>
    /\ g_calls = <<>>
    /\ ParseIdle /\ PromptIdle
    /\ MwIdle /\ NormIdle /\ GateIdle /\ RouterIdle

GraphRest == <<parseVars, promptVars, normVars, mwVars, gateVars, routerVars>>

\* The run is started: the edge from START.
Invoke ==
    /\ g_node = "START"
    /\ g_node' = NextNode("START", g_state)
    /\ UNCHANGED <<g_env, g_state, g_trace, g_calls, GraphRest>>

FetchLogs ==
    /\ g_node = "fetch_logs"
    /\ Len(g_trace) < MaxSteps
    /\ \E outcome \in FetchOutcomes :
          LET r == fetch_logs_node(g_state, g_env, outcome)
          IN /\ g_state' = r.state
             /\ g_trace' = Append(g_trace, Ran("fetch_logs", r.ok))
             /\ g_calls' = IF r.called THEN Append(g_calls, "get_build_logs") ELSE g_calls
             /\ g_node' = NextNode("fetch_logs", r.state)
    /\ UNCHANGED <<g_env, GraphRest>>

AnalyzeLogs ==
    /\ g_node = "analyze_logs"
    /\ Len(g_trace) < MaxSteps
    /\ \E outcome \in AnalyzeOutcomes :
          LET r == analyze_logs_node(g_state, g_env, outcome)
          IN /\ g_state' = r.state
             /\ g_trace' = Append(g_trace, Ran("analyze_logs", r.ok))
             /\ g_calls' = IF r.called THEN Append(g_calls, "ainvoke") ELSE g_calls
             /\ g_node' = NextNode("analyze_logs", r.state)
    /\ UNCHANGED <<g_env, GraphRest>>

ParseResponse ==
    /\ g_node = "parse_response"
    /\ Len(g_trace) < MaxSteps
    /\ LET st == parse_response_node(g_state)
       IN /\ g_state' = st
          /\ g_trace' = Append(g_trace, Ran("parse_response", st.status # Str("error")))
          /\ g_node' = NextNode("parse_response", st)
    /\ UNCHANGED <<g_env, g_calls, GraphRest>>

\* The error node: lambda state: state
ErrorNode ==
    /\ g_node = "error"
    /\ Len(g_trace) < MaxSteps
    /\ g_trace' = Append(g_trace, Ran("error", TRUE))
    /\ g_node' = NextNode("error", g_state)
    /\ UNCHANGED <<g_env, g_state, g_calls, GraphRest>>

NextGraph == Invoke \/ FetchLogs \/ AnalyzeLogs \/ ParseResponse \/ ErrorNode

SpecGraph == InitGraph /\ [][NextGraph]_vars /\ WF_vars(NextGraph)

(***************************************************************************)
(* Reading JSON back: what a consumer of the normalized string recovers.   *)
(* Used only to state the claims about the encoded output.                 *)
(***************************************************************************)
JsonInvalid == [kind |-> "invalid", val |-> <<>>]
ParseFail == [ok |-> FALSE, v |-> JsonInvalid, rest |-> <<>>]
Parsed(v, rest) == [ok |-> TRUE, v |-> v, rest |-> rest]

RECURSIVE SkipWs(_)
SkipWs(s) ==
    IF s # <<>> /\ Head(s) \in {" ", "\n"} THEN SkipWs(Tail(s)) ELSE s

\* s follows an opening quote.
RECURSIVE ParseStringBody(_, _)
ParseStringBody(s, acc) ==
    IF s = <<>> THEN ParseFail
    ELSE IF Head(s) = "\"" THEN Parsed(PyStr(acc), Tail(s))
    ELSE IF Head(s) = "\\"
         THEN IF Len(s) < 2 \/ s[2] \notin {"\"", "\\"} THEN ParseFail
              ELSE ParseStringBody(Tail(Tail(s)), Append(acc, s[2]))
    ELSE ParseStringBody(Tail(s), Append(acc, Head(s)))

ParseString(s) ==
    LET t == SkipWs(s)
    IN IF t # <<>> /\ Head(t) = "\"" THEN ParseStringBody(Tail(t), <<>>)
       ELSE ParseFail

\* s follows "{" or a "," inside an object; the members are string: string.
RECURSIVE ParseObjectBody(_, _)
ParseObjectBody(s, acc) ==
    LET k == ParseString(s)
        colon == SkipWs(k.rest)
        v == ParseString(Tail(colon))
        after == SkipWs(v.rest)
    IN IF ~k.ok \/ Len(k.v.val) # 1 \/ colon = <<>> \/ Head(colon) # ":"
          THEN ParseFail
       ELSE IF ~v.ok \/ after = <<>> \/ k.v.val[1] \in DOMAIN acc THEN ParseFail
       ELSE LET d == [x \in DOMAIN acc \cup {k.v.val[1]} |->
                         IF x = k.v.val[1] THEN v.v.val ELSE acc[x]]
            IN IF Head(after) = "}" THEN Parsed(PyDict(d), Tail(after))
               ELSE IF Head(after) = "," THEN ParseObjectBody(Tail(after), d)
               ELSE ParseFail

ParseScalarOrObject(s) ==
    LET t == SkipWs(s)
    IN IF t = <<>> THEN ParseFail
       ELSE IF Head(t) = "\"" THEN ParseStringBody(Tail(t), <<>>)
       ELSE IF Head(t) = "null" THEN Parsed(PyNone, Tail(t))
       ELSE IF Head(t) = "{"
            THEN LET u == SkipWs(Tail(t))
                 IN IF u # <<>> /\ Head(u) = "}"
                       THEN Parsed(PyDict([x \in {} |-> <<>>]), Tail(u))
                    ELSE ParseObjectBody(u, [x \in {} |-> <<>>])
       ELSE ParseFail

\* s follows "[" or a "," inside an array.
RECURSIVE ParseArrayBody(_, _)
ParseArrayBody(s, acc) ==
    LET v == ParseScalarOrObject(s)
        after == SkipWs(v.rest)
    IN IF ~v.ok \/ after = <<>> THEN ParseFail
       ELSE IF Head(after) = "]" THEN Parsed(PyList(Append(acc, v.v)), Tail(after))
       ELSE IF Head(after) = "," THEN ParseArrayBody(Tail(after), Append(acc, v.v))
       ELSE ParseFail

\* json.loads of a document whose top level is an array.
JsonLoads(s) ==
    LET t == SkipWs(s)
        r == IF t = <<>> \/ Head(t) # "[" THEN ParseFail
             ELSE LET u == SkipWs(Tail(t))
                  IN IF u # <<>> /\ Head(u) = "]" THEN Parsed(PyList(<<>>), Tail(u))
                     ELSE ParseArrayBody(u, <<>>)
    IN IF r.ok /\ SkipWs(r.rest) = <<>> THEN r.v ELSE JsonInvalid

(***************************************************************************)
(* Claims about normalize_mcp_content (SpecNorm)                           *)
(***************************************************************************)
Called == normalized # NotCalled
NonEmptyList == content.kind = "list" /\ Len(content.val) >= 1
AllHaveText == \A i \in 1..Len(content.val) : HasText(content.val[i])
NoneHasText == \A i \in 1..Len(content.val) : ~HasText(content.val[i])
TextOf(i) == content.val[i].val["text"]

\* C7: for a list of N >= 1 items that all expose a text field the
\* normalizer returns the single text itself when N = 1 and, when N > 1, a
\* JSON array that reads back as exactly the N texts in their original order.
C7_AllTextItems ==
    (Called /\ NonEmptyList /\ AllHaveText) =>
        LET n == Len(content.val)
        IN /\ n = 1 => normalized = PyStr(TextOf(1))
           /\ n > 1 =>
                /\ normalized.kind = "str"
                /\ JsonLoads(normalized.val) = PyList([i \in 1..n |-> PyStr(TextOf(i))])

C7_Witness ==
    /\ Called /\ NonEmptyList /\ AllHaveText
    /\ Len(content.val) >= 2
    /\ TextOf(1) # TextOf(2)
    /\ \E i \in 1..Len(TextOf(1)) : TextOf(1)[i] = "\""

\* The positions of the items that expose text, and those positions in
\* ascending order.
TextBearing == {i \in 1..Len(content.val) : HasText(content.val[i])}

RECURSIVE Ascending(_)
Ascending(S) ==
    IF S = {} THEN <<>>
    ELSE LET m == CHOOSE i \in S : \A j \in S : i <= j
         IN <<m>> \o Ascending(S \ {m})

\* C28: for a list whose first item exposes text and in which some later
\* item does not, the normalizer returns the texts of the text-bearing items
\* only, in their original order and as many as there are such items (the
\* text itself when there is one, a JSON array of them otherwise), and never
\* the string rendering of the whole list.
C28_MixedList ==
    (/\ Called /\ NonEmptyList /\ HasText(content.val[1])
     /\ \E i \in 2..Len(content.val) : ~HasText(content.val[i])) =>
        LET at == Ascending(TextBearing)
        IN /\ Len(at) = 1 => normalized = PyStr(TextOf(1))
           /\ Len(at) > 1 =>
                /\ normalized.kind = "str"
                /\ JsonLoads(normalized.val) =
                      PyList([k \in 1..Len(at) |-> PyStr(TextOf(at[k]))])
           /\ normalized # PyStr(PyStrList(content.val))

\* Two different texts with an item of another shape between them,
\* normalized to the array of the two texts.
C28_Witness ==
    /\ Called /\ NonEmptyList /\ Len(content.val) = 3
    /\ HasText(content.val[1]) /\ ~HasText(content.val[2]) /\ HasText(content.val[3])
    /\ TextOf(1) # TextOf(3)
    /\ normalized.kind = "str"
    /\ JsonLoads(normalized.val) = PyList(<<PyStr(TextOf(1)), PyStr(TextOf(3))>>)

\* C8: a content value that is not a non-empty list (a string, a mapping,
\* null, an empty list) is returned unchanged.
C8_PassThrough ==
    (Called /\ ~NonEmptyList) => normalized = content

C8_Witness == Called /\ content = PyList(<<>>) /\ normalized = PyList(<<>>)

\* C9: for a non-empty list whose first item does not expose a text field
\* the normalizer never raises; it returns a JSON document that reads back as
\* the whole input list or, when the list cannot be encoded, the non-empty
\* string rendering of the list.
C9_FirstItemWithoutText ==
    (Called /\ NonEmptyList /\ ~HasText(content.val[1])) =>
        /\ normalized.kind = "str"
        /\ JsonSerializable(content) => JsonLoads(normalized.val) = content
        /\ ~JsonSerializable(content) =>
              /\ normalized.val = PyStrList(content.val)
              /\ Len(normalized.val) > 0

C9_Witness ==
    /\ Called /\ NonEmptyList /\ ~HasText(content.val[1])
    /\ ~JsonSerializable(content)
    /\ normalized = PyStr(PyStrList(content.val))

\* C10 as stated: a non-empty list in which no item exposes a text field is
\* returned as the string rendering of the whole input.
C10_AsStated ==
    (Called /\ NonEmptyList /\ NoneHasText) =>
        normalized = PyStr(PyStrList(content.val))

\* C10 amended: a non-empty list in which no item exposes a text field is
\* returned as its JSON encoding, and as the string rendering of the whole
\* input only when the list cannot be JSON-encoded.
C10_JsonBeforeStr ==
    (Called /\ NonEmptyList /\ NoneHasText) =>
        /\ normalized.kind = "str"
        /\ (normalized.val = PyStrList(content.val)) <=> ~JsonSerializable(content)
        /\ JsonSerializable(content) => JsonLoads(normalized.val) = content

C10_Witness ==
    /\ Called /\ NonEmptyList /\ NoneHasText
    /\ JsonSerializable(content)
    /\ normalized.val # PyStrList(content.val)
    /\ JsonLoads(normalized.val) = content

(***************************************************************************)
(* Claims about handle_tool_errors (SpecMw)                                *)
(***************************************************************************)
Done(c) == mw_pc[c] = "done"
HandlerRaised(c) == mw_handled[c].kind = "raise"
HasId(c) == "id" \in DOMAIN mw_request[c]

\* C1: a condition raised by the handler whose kind is named in the
\* interrupt set is re-raised as the same condition: no error response is
\* produced for the call and nothing is logged as an error.
C1_InterruptReRaised ==
    \A c \in CallIds :
        (Done(c) /\ HandlerRaised(c)
            /\ mw_handled[c].exc.name \in {"GraphInterrupt", "NodeInterrupt", "Interrupt"}) =>
                /\ mw_outcome[c] = Raised(mw_handled[c].exc)
                /\ mw_logged[c] = <<>>

C1_Witness ==
    \E c \in CallIds :
        /\ Done(c) /\ HandlerRaised(c)
        /\ mw_handled[c].exc.name = "NodeInterrupt"
        /\ mw_outcome[c].kind = "raise"
        /\ mw_outcome[c].exc = mw_handled[c].exc

\* The response the claims speak of: addressed to call c, with the content
\* ERROR in tool '<name>': <kind>: <message>.
IsErrorResponse(c) ==
    /\ mw_outcome[c].kind = "return"
    /\ mw_outcome[c].result.type = "ToolMessage"
    /\ mw_outcome[c].result.tool_call_id = c
    /\ mw_outcome[c].result.content =
          PyStr(<<"ERROR in tool '",
                  IF "name" \in DOMAIN mw_request[c] THEN mw_request[c]["name"]
                  ELSE "unknown",
                  "': ", mw_handled[c].exc.name, ": ">> \o mw_handled[c].exc.msg)

\* C2 as stated: every condition raised by the handler whose kind is not
\* named in the interrupt set, for a request with a call id, is answered by
\* the error response for the call.
C2_AsStated ==
    \A c \in CallIds :
        (Done(c) /\ HandlerRaised(c) /\ HasId(c)
            /\ mw_handled[c].exc.name \notin {"GraphInterrupt", "NodeInterrupt", "Interrupt"}) =>
                IsErrorResponse(c)

\* C2 amended: a condition raised by the handler that is neither of a kind
\* named in the interrupt set nor an instance of Interrupt, for a request
\* that carries its call id, is answered (not raised) by a response with that
\* call id and the content ERROR in tool '<name>': <kind>: <message>, <name>
\* being "unknown" when the request carries no name.  An Interrupt instance
\* is re-raised whatever its kind name, and without an id in the request the
\* failure leaves as a KeyError.
C2_ErrorResponse ==
    \A c \in CallIds :
        (Done(c) /\ HandlerRaised(c)
            /\ mw_handled[c].exc.name \notin {"GraphInterrupt", "NodeInterrupt", "Interrupt"}) =>
                IF InterruptClass \in mw_handled[c].exc.bases
                   THEN mw_outcome[c] = Raised(mw_handled[c].exc)
                ELSE IF HasId(c) THEN IsErrorResponse(c)
                ELSE /\ mw_outcome[c].kind = "raise"
                     /\ mw_outcome[c].exc.name = "KeyError"

C2_Witness ==
    \E c \in CallIds :
        /\ Done(c) /\ HandlerRaised(c) /\ HasId(c)
        /\ mw_handled[c].exc.name = "ValueError"
        /\ mw_handled[c].exc.msg # <<>>
        /\ "name" \in DOMAIN mw_request[c]
        /\ IsErrorResponse(c)

\* A well-formed response addressed to call c.
IsResponse(c) ==
    /\ mw_outcome[c].kind = "return"
    /\ mw_outcome[c].result.type = "ToolMessage"
    /\ mw_outcome[c].result.has_content
    /\ mw_outcome[c].result.tool_call_id = c

\* C3 as stated: whatever the handler does and whatever the request
\* carries, the caller of a completed call holds a well-formed response
\* addressed to the call, never a raised condition.
C3_AsStated ==
    \A c \in CallIds : Done(c) => IsResponse(c)

\* C3 amended: for a request that carries its call id, the caller receives a
\* well-formed response addressed to that call id (the handler's result or
\* the synthesized error) unless the handler raised an interrupt condition
\* (by kind name or as an Interrupt instance), which reaches the caller as
\* raised; no other failure escapes.  For a request without an id, a handler
\* failure that is not an interrupt escapes as a KeyError.
C3_ResponseOrInterrupt ==
    \A c \in CallIds :
        Done(c) =>
            LET h == mw_handled[c]
                interrupted ==
                    /\ h.kind = "raise"
                    /\ \/ h.exc.name \in {"GraphInterrupt", "NodeInterrupt", "Interrupt"}
                       \/ InterruptClass \in h.exc.bases
                failed ==
                    \/ h.kind = "raise"
                    \/ h.kind = "return" /\ ~h.result.has_content
            IN IF interrupted THEN mw_outcome[c] = Raised(h.exc)
               ELSE IF HasId(c) THEN IsResponse(c)
               ELSE IF failed
                    THEN mw_outcome[c].kind = "raise" /\ mw_outcome[c].exc.name = "KeyError"
               ELSE /\ mw_outcome[c].kind = "return"
                    /\ mw_outcome[c].result.type = "ToolMessage"

C3_Witness ==
    \E c \in CallIds :
        /\ Done(c) /\ HasId(c)
        /\ mw_handled[c] = Returned(Command)
        /\ IsResponse(c)

C4_AsStated ==
    \A s \in ServerIds : \A t \in GateTools :
        IF t \in DOMAIN cfg_servers[s]
           THEN tool_state[s][t] = "executed" =>
                    tool_offered[s][t] = cfg_servers[s][t].allowed_decisions
        ELSE tool_state[s][t] # "paused" /\ tool_offered[s][t] = <<>>

\* C5: the interrupt configuration create_subagent installs names exactly
\* the tools of the approval table it was given and carries, for each, the
\* table's allowed decisions and description (the defaults where the entry
\* has none); with an empty or absent table no gate is installed; and a tool
\* the table does not name never raises an interrupt.
C5_GateMatchesTable ==
    LET a == agents[SubServer]
        table == sub_args[SubServer]
    IN a.built =>
        /\ IF table.kind = "dict" /\ DOMAIN table.val # {}
              THEN /\ Len(a.middleware) = 2
                   /\ a.middleware[1].kind = "hitl"
                   /\ a.middleware[2].kind # "hitl"
                   /\ DOMAIN a.middleware[1].interrupt_on = DOMAIN table.val
                   /\ \A t \in DOMAIN table.val :
                        LET entry == table.val[t]
                            rule == a.middleware[1].interrupt_on[t]
                        IN /\ rule.allowed_decisions =
                                 IF "allowed_decisions" \in DOMAIN entry
                                    THEN entry["allowed_decisions"]
                                 ELSE <<"approve", "reject">>
                           /\ rule.description =
                                 IF "description" \in DOMAIN entry
                                    THEN entry["description"]
                                 ELSE <<t, " requires approval">>
           ELSE \A i \in 1..Len(a.middleware) : a.middleware[i].kind # "hitl"
        /\ \A t \in GateTools :
              (table.kind # "dict" \/ t \notin DOMAIN table.val) =>
                  tool_state[SubServer][t] # "paused" /\ tool_offered[SubServer][t] = <<>>

C5_Witness ==
    LET a == agents[SubServer]
        table == sub_args[SubServer]
    IN /\ a.built
       /\ table.kind = "dict"
       /\ DOMAIN table.val = {"start_job"}
       /\ DOMAIN table.val["start_job"] = {"allowed_decisions", "description"}
       /\ table.val["start_job"]["allowed_decisions"] = <<"approve">>
       /\ tool_state[SubServer]["start_job"] = "paused"
       /\ tool_offered[SubServer]["start_job"] = <<"approve">>
       /\ tool_state[SubServer]["list_jobs"] = "executed"

\* The handler's failure is an interrupt for the wrapper: by kind name or as
\* an Interrupt instance.
Interrupted(c) ==
    /\ HandlerRaised(c)
    /\ \/ mw_handled[c].exc.name \in {"GraphInterrupt", "NodeInterrupt", "Interrupt"}
       \/ InterruptClass \in mw_handled[c].exc.bases

\* C22: in every invocation the handler is called exactly once, never again
\* after it failed; a failure that is not an interrupt, of a call that
\* carries its id, is answered by exactly one error response for that id
\* and logged exactly once.
C22_NoRetry ==
    \A c \in CallIds :
        /\ mw_handler_calls[c] = IF mw_pc[c] = "idle" THEN 0 ELSE 1
        /\ (Done(c) /\ HandlerRaised(c) /\ ~Interrupted(c) /\ HasId(c)) =>
              /\ IsErrorResponse(c)
              /\ Len(mw_logged[c]) = 1

\* A call whose handler failed once is done with one handler call and one
\* error response.
C22_Witness ==
    \E c \in CallIds :
        /\ Done(c) /\ HandlerRaised(c) /\ HasId(c)
        /\ mw_handled[c].exc.name = "ValueError"
        /\ mw_handler_calls[c] = 1
        /\ IsErrorResponse(c)
        /\ Len(mw_logged[c]) = 1

\* The part of the state that belongs to call c.
OwnState(c) ==
    <<mw_pc[c], mw_request[c], mw_handler_calls[c], mw_handled[c],
      mw_outcome[c], mw_logged[c]>>

\* C23: in every interleaving of the two calls, a step of one call leaves
\* everything that belongs to the other call as it was, and a call that
\* completes holds the outcome and the log entries it would have alone:
\* those the wrapper computes from its own request and its own handler's
\* result, a returned response being addressed to its own call id.
C23_Independent ==
    [][\A c \in CallIds :
          (mw_pc'[c] # mw_pc[c]) =>
              /\ \A d \in CallIds \ {c} : OwnState(d)' = OwnState(d)
              /\ (mw_pc'[c] = "done") =>
                    LET alone == AfterHandler(mw_request[c], mw_handled'[c])
                    IN /\ mw_outcome'[c] = alone.outcome
                       /\ mw_logged'[c] = alone.logged
                       /\ (/\ "id" \in DOMAIN mw_request[c]
                           /\ alone.outcome.kind = "return"
                           /\ alone.outcome.result.type = "ToolMessage") =>
                              mw_outcome'[c].result.tool_call_id = c]_vars

\* Both calls are complete, one answered with its handler's result and the
\* other with an error response, each addressed to its own call id; the
\* two requests differ.
C23_Witness ==
    /\ Done("call_1") /\ Done("call_2")
    /\ HasId("call_1") /\ HasId("call_2")
    /\ DOMAIN mw_request["call_1"] # DOMAIN mw_request["call_2"]
    /\ ~HandlerRaised("call_1") /\ IsResponse("call_1")
    /\ HandlerRaised("call_2") /\ IsErrorResponse("call_2")

\* The decisions a list names.
DecisionsOf(list) == {list[i] : i \in 1..Len(list)}

\* C24 as stated: for any configuration document, every approval rule the
\* loaded configuration holds, and every entry of the interrupt
\* configuration built from its approval tools, allows only decisions among
\* approve, reject and edit.
C24_AsStated ==
    /\ \A s \in ServerIds : \A t \in DOMAIN cfg_servers[s] :
          DecisionsOf(cfg_servers[s][t].allowed_decisions) \subseteq AllowedDecisions
    /\ all_approval # NotPassed =>
          LET interrupt_on == build_interrupt_on_config(all_approval.val)
          IN \A t \in DOMAIN interrupt_on :
                DecisionsOf(interrupt_on[t].allowed_decisions) \subseteq AllowedDecisions

\* C25: with the supervisor's call wrapping a sub-agent whose own tool call
\* is wrapped again, both requests carrying their ids, an interrupt raised
\* by the innermost tool leaves the inner layer, the sub-agent tool and the
\* outer layer as that same condition, unlogged; any other failure of the
\* innermost tool becomes the inner layer's error response, the sub-agent
\* tool returns, and the outer layer hands that result back without logging
\* a failure.
C25_Nested ==
    (/\ Done(OuterCall) /\ Done(InnerCall)
     /\ HasId(OuterCall) /\ HasId(InnerCall)
     /\ HandlerRaised(InnerCall)) =>
        IF Interrupted(InnerCall)
           THEN /\ mw_outcome[InnerCall] = Raised(mw_handled[InnerCall].exc)
                /\ mw_handled[OuterCall] = Raised(mw_handled[InnerCall].exc)
                /\ mw_outcome[OuterCall] = Raised(mw_handled[InnerCall].exc)
                /\ mw_logged[InnerCall] = <<>> /\ mw_logged[OuterCall] = <<>>
        ELSE /\ IsErrorResponse(InnerCall)
             /\ mw_handled[OuterCall].kind = "return"
             /\ mw_outcome[OuterCall] = mw_handled[OuterCall]
             /\ IsResponse(OuterCall)
             /\ mw_logged[OuterCall] = <<>>

\* A GraphInterrupt of the innermost tool has reached the supervisor's caller.
C25_Witness ==
    /\ Done(OuterCall) /\ Done(InnerCall)
    /\ HasId(OuterCall) /\ HasId(InnerCall)
    /\ HandlerRaised(InnerCall)
    /\ mw_handled[InnerCall].exc.name = "GraphInterrupt"
    /\ mw_outcome[OuterCall] = Raised(mw_handled[InnerCall].exc)

\* The conditions that end a task or the process.
ExitConditions == {"CancelledError", "KeyboardInterrupt", "SystemExit"}

\* C26: a task cancellation, a keyboard interrupt or a system exit raised
\* by the handler of a call that carries its id never reaches the caller:
\* the call is answered with the error response for its id, logged once.
C26_ExitConditionsReported ==
    \A c \in CallIds :
        (/\ Done(c) /\ HandlerRaised(c) /\ HasId(c)
         /\ mw_handled[c].exc.name \in ExitConditions) =>
            /\ mw_outcome[c].kind = "return"
            /\ IsErrorResponse(c)
            /\ Len(mw_logged[c]) = 1

\* A cancelled call answered with CancelledError in its error response.
C26_Witness ==
    \E c \in CallIds :
        /\ Done(c) /\ HasId(c) /\ "name" \in DOMAIN mw_request[c]
        /\ mw_handled[c] = Raised(Exc("CancelledError", {}, <<>>))
        /\ mw_outcome[c] =
              Returned(ToolMessage(
                  PyStr(<<"ERROR in tool '", ToolName, "': ", "CancelledError", ": ">>), c))

\* C27: a condition is an interrupt for the wrapper by its exact kind name
\* or as an Interrupt instance, and by nothing else.  For a call that
\* carries its id: a subtype of an interrupt kind under another name
\* (ApprovalPause, derived from GraphInterrupt) is answered with an error
\* response, and a condition of an unrelated type that bears one of the
\* three names is re-raised as it is.
C27_ByNameOrInstance ==
    \A c \in CallIds :
        (Done(c) /\ HandlerRaised(c) /\ HasId(c)) =>
            LET e == mw_handled[c].exc
                named == e.name \in {"GraphInterrupt", "NodeInterrupt", "Interrupt"}
            IN /\ (named \/ InterruptClass \in e.bases) => mw_outcome[c] = Raised(e)
               /\ (~named /\ InterruptClass \notin e.bases) => IsErrorResponse(c)
               /\ (e.name = "ApprovalPause"
                     /\ "langgraph.errors.GraphInterrupt" \in e.bases) => IsErrorResponse(c)
               /\ (e.name = "Interrupt" /\ InterruptClass \notin e.bases) =>
                     mw_outcome[c] = Raised(e)

\* A subtype of GraphInterrupt named ApprovalPause was answered with an
\* error response while an unrelated Interrupt was re-raised.
C27_Witness ==
    \E c, d \in CallIds :
        /\ Done(c) /\ HasId(c) /\ Done(d) /\ HasId(d)
        /\ HandlerRaised(c) /\ mw_handled[c].exc.name = "ApprovalPause"
        /\ IsErrorResponse(c)
        /\ HandlerRaised(d) /\ mw_handled[d].exc.name = "Interrupt"
        /\ InterruptClass \notin mw_handled[d].exc.bases
        /\ mw_outcome[d].kind = "raise"

\* The approval gate comes before handle_tool_errors in a middleware list
\* that holds both.
GateBeforeWrapper(middleware) ==
    \A i, j \in 1..Len(middleware) :
        (middleware[i].kind = "hitl" /\ middleware[j] = handle_tool_errors) => i < j

HasGateAndWrapper(middleware) ==
    /\ \E i \in 1..Len(middleware) : middleware[i].kind = "hitl"
    /\ \E j \in 1..Len(middleware) : middleware[j] = handle_tool_errors

\* C12 as stated: in every middleware list the repository builds that holds
\* both the approval gate and handle_tool_errors, the sub-agent's from
\* create_subagent and the supervisor's from _init_agent, the gate is
\* placed before handle_tool_errors.
C12_AsStated ==
    /\ \A s \in ServerIds :
          (agents[s].built /\ HasGateAndWrapper(agents[s].middleware)) =>
              GateBeforeWrapper(agents[s].middleware)
    /\ (sup_pc = "ready" /\ HasGateAndWrapper(sup_middleware)) =>
          GateBeforeWrapper(sup_middleware)

\* The servers that declare an approval rule for tool t, by position.
Declaring(t) == {i \in 1..Len(Servers) : t \in DOMAIN cfg_servers[Servers[i]]}

\* C13: get_all_approval_tools returns a table whose tool names are exactly
\* the names declared by some server; a name declared by one server keeps
\* that server's rule, and a name declared by several servers carries the
\* rule of the one declared last.
C13_UnionLastWins ==
    all_approval # NotPassed =>
        /\ all_approval.kind = "dict"
        /\ DOMAIN all_approval.val = UNION {DOMAIN cfg_servers[s] : s \in ServerIds}
        /\ \A t \in DOMAIN all_approval.val :
              \E i \in Declaring(t) :
                  /\ \A j \in Declaring(t) : j <= i
                  /\ all_approval.val[t].allowed_decisions =
                        cfg_servers[Servers[i]][t].allowed_decisions
                  /\ all_approval.val[t].description = cfg_servers[Servers[i]][t].description
                  /\ DOMAIN all_approval.val[t] = {"allowed_decisions", "description"}

\* Both servers declare start_job with different decisions and only the
\* first declares list_jobs: the second server's start_job rule is returned
\* next to the first server's list_jobs rule.
C13_Witness ==
    /\ all_approval # NotPassed
    /\ Declaring("start_job") = {1, 2}
    /\ Declaring("list_jobs") = {1}
    /\ cfg_servers[Servers[1]]["start_job"].allowed_decisions
          # cfg_servers[Servers[2]]["start_job"].allowed_decisions
    /\ all_approval.val["start_job"].allowed_decisions
          = cfg_servers[Servers[2]]["start_job"].allowed_decisions
    /\ all_approval.val["list_jobs"] = cfg_servers[Servers[1]]["list_jobs"]

(***************************************************************************)
(* Claims about load_mcp_tools (SpecRouter)                                *)
(***************************************************************************)
\* How often tool i appears over all groups.
Occurrences(groups, i) ==
    LET ids == DOMAIN groups
        count[S \in SUBSET ids] ==
            IF S = {} THEN 0
            ELSE LET id == CHOOSE x \in S : TRUE
                 IN Len(SelectSeq(groups[id], LAMBDA j : j = i)) + count[S \ {id}]
    IN count[ids]

\* C6 as stated: for any discovered tools and any non-empty configuration,
\* load_mcp_tools returns, and every discovered tool is in exactly one group.
C6_AsStated ==
    rt_result # RouterPending =>
        /\ rt_result.status = "returned"
        /\ \A i \in 1..Len(rt_tools) : Occurrences(rt_result.groups, i) = 1

\* The declared servers, by position, whose prefix tool i carries.
PrefixMatches(i) ==
    {k \in 1..Len(rt_servers) :
        StartsWith(Lower(rt_tools[i]), DashesToUnderscores(rt_servers[k]) \o <<"_">>)}

\* The server the keyword tables name for tool i, <<>> when they name none.
KeywordTarget(i) ==
    IF \E kw \in ClusterKeywords : Contains(Lower(rt_tools[i]), kw) THEN ClusterMonitorId
    ELSE IF \E kw \in JenkinsKeywords : Contains(Lower(rt_tools[i]), kw) THEN JenkinsId
    ELSE <<>>

\* The groups tool i was appended to, and the tools appended to any group.
GroupsHolding(i) ==
    {id \in DOMAIN rt_result.groups :
        \E k \in 1..Len(rt_result.groups[id]) : rt_result.groups[id][k] = i}
Grouped == {i \in 1..Len(rt_tools) : GroupsHolding(i) # {}}

\* The tool at which the loop stopped with a KeyError.
FailedAt(i) == rt_result.status = "raised" /\ i = Cardinality(Grouped) + 1

\* C14: a tool whose lowercased name starts with the prefix of a declared
\* server is put in the group of the first such server in declaration order
\* and in no other, whatever the keyword tables say about its name; the
\* keyword tables are not consulted for it, so it never stops the loop.
C14_PrefixBeforeKeyword ==
    rt_result # RouterPending =>
        \A i \in 1..Len(rt_tools) :
            PrefixMatches(i) # {} =>
                /\ ~FailedAt(i)
                /\ i \in Grouped =>
                      \E k \in PrefixMatches(i) :
                          /\ \A j \in PrefixMatches(i) : k <= j
                          /\ GroupsHolding(i) = {rt_servers[k]}
                          /\ Occurrences(rt_result.groups, i) = 1

\* A tool with the prefix of one declared server and a keyword of another
\* declared server sits in the group of the prefix.
C14_Witness ==
    /\ rt_result.status = "returned"
    /\ \E i \in 1..Len(rt_tools) :
          /\ PrefixMatches(i) # {}
          /\ KeywordTarget(i) \in DOMAIN rt_result.groups
          /\ \A k \in PrefixMatches(i) : rt_servers[k] # KeywordTarget(i)
          /\ GroupsHolding(i) # {}
          /\ KeywordTarget(i) \notin GroupsHolding(i)

\* No rule names a server for tool i.
NoRule(i) == PrefixMatches(i) = {} /\ KeywordTarget(i) = <<>>

\* C15: a tool that neither the prefix rule nor the keyword tables place is
\* put in the group of the first declared server, and only there; a tool
\* found in a group that no rule names for it is such a tool, in that
\* first group; and the last resort never stops the loop.
C15_FallbackFirstServer ==
    rt_result # RouterPending =>
        \A i \in 1..Len(rt_tools) :
            /\ NoRule(i) => ~FailedAt(i)
            /\ (NoRule(i) /\ i \in Grouped) =>
                  /\ GroupsHolding(i) = {rt_servers[1]}
                  /\ Occurrences(rt_result.groups, i) = 1
            /\ \A id \in GroupsHolding(i) :
                  \/ \E k \in PrefixMatches(i) : rt_servers[k] = id
                  \/ PrefixMatches(i) = {} /\ KeywordTarget(i) = id
                  \/ NoRule(i) /\ id = rt_servers[1]

\* With several servers declared, a tool no rule places sits in the group
\* of the first.
C15_Witness ==
    /\ rt_result.status = "returned"
    /\ Len(rt_servers) >= 2
    /\ \E i \in 1..Len(rt_tools) :
          /\ NoRule(i)
          /\ GroupsHolding(i) = {rt_servers[1]}

(***************************************************************************)
(* Claims about the parse step (SpecParse)                                 *)
(***************************************************************************)
\* The results at hand, of either variant.
ParseResults == {r \in {p_graph, p_agent} : r # NotParsed}

IsText == p_response.kind = "str"
FirstIndex(w) ==
    CHOOSE k \in 1..Len(p_response.val) :
        p_response.val[k] = Whole(w) /\ \A j \in 1..(k - 1) : p_response.val[j] # Whole(w)

\* The text between the first SUMMARY: and the first DETAILED ANALYSIS:, and
\* the text after the latter.
BetweenMarkers ==
    LET a == FirstIndex(SummaryMarker)
        b == FirstIndex(DetailedMarker)
    IN IF a < b THEN SubSeq(p_response.val, a + 1, b - 1)
       ELSE SubSeq(p_response.val, b + 1, a - 1)
AfterDetailed ==
    SubSeq(p_response.val, FirstIndex(DetailedMarker) + 1, Len(p_response.val))

\* C18 as stated: for a response text that contains both markers, each
\* variant of the parse step yields as summary the trimmed text between
\* the two markers and as analysis the trimmed text after the DETAILED
\* ANALYSIS: marker, wherever the markers are and whatever precedes SUMMARY:.
C18_AsStated ==
    (IsText /\ HasWord(p_response.val, SummaryMarker)
            /\ HasWord(p_response.val, DetailedMarker)) =>
        \A r \in ParseResults :
            /\ r.kind = "parsed"
            /\ r.summary = Text(Strip(BetweenMarkers))
            /\ r.analysis = Text(Strip(AfterDetailed))

Min(a, b) == IF a < b THEN a ELSE b

\* C19: for a response text without the SUMMARY: marker, each variant of
\* the parse step yields as summary the first 500 characters of the text
\* (all of it when it is shorter) followed by "...", and as analysis the
\* full text, unmodified.
C19_Fallback ==
    (IsText /\ ~HasWord(p_response.val, SummaryMarker)) =>
        \A r \in ParseResults :
            /\ r.kind = "parsed"
            /\ r.summary.kind = "str"
            /\ StrLen(r.summary.val) = Min(SummaryLimit, StrLen(p_response.val)) + 3
            /\ r.summary.val =
                  Concat(SliceTo(p_response.val, SummaryLimit), <<Whole(Ellipsis)>>)
            /\ r.analysis = p_response

\* A text of more than 500 characters without SUMMARY: went through both
\* variants: 500 characters and the ellipsis are the summary.
C19_Witness ==
    /\ IsText /\ ~HasWord(p_response.val, SummaryMarker)
    /\ StrLen(p_response.val) > SummaryLimit
    /\ p_graph.kind = "parsed" /\ p_agent.kind = "parsed"
    /\ StrLen(p_graph.summary.val) = SummaryLimit + 3
    /\ p_graph.summary = p_agent.summary
    /\ p_graph.analysis = p_response /\ p_agent.analysis = p_response

(***************************************************************************)
(* Claims about the log-analysis graph (SpecGraph)                         *)
(***************************************************************************)
\* The stages in their order; parse_response and error are the two ends of
\* the pipeline, side by side.
Stage(node) ==
    CASE node = "START" -> 0
      [] node = "fetch_logs" -> 1
      [] node = "analyze_logs" -> 2
      [] node = "parse_response" -> 3
      [] node = "error" -> 3
      [] node = "END" -> 4

RanNodes == {g_trace[i].node : i \in DOMAIN g_trace}
Failed(node) == \E i \in DOMAIN g_trace : g_trace[i] = Ran(node, FALSE)
Succeeded(node) == \E i \in DOMAIN g_trace : g_trace[i] = Ran(node, TRUE)

\* C16: in every run of the graph no node is executed more than once, every
\* step goes to a later stage (START, fetch_logs, analyze_logs, then
\* parse_response or error, then END), and the run reaches END, whether
\* its stages succeed or fail.
C16_ForwardToEnd ==
    /\ [](\A i, j \in DOMAIN g_trace : i # j => g_trace[i].node # g_trace[j].node)
    /\ [][Stage(g_node') > Stage(g_node)]_vars
    /\ <>(g_node = "END")

\* A run whose analysis failed is at END, each node run once.
C16_Witness ==
    /\ g_node = "END"
    /\ g_trace = <<Ran("fetch_logs", TRUE), Ran("analyze_logs", FALSE), Ran("error", TRUE)>>

\* C17: after a failure in fetch_logs neither analyze_logs nor
\* parse_response runs and the run goes to the error node and then END;
\* after a failure in analyze_logs parse_response does not run and the run
\* goes to the same error node and then END; parse_response is reached
\* only after fetch_logs and analyze_logs both succeeded.
C17_ErrorExits ==
    /\ Failed("fetch_logs") =>
          \/ g_node = "error" /\ g_trace = <<Ran("fetch_logs", FALSE)>>
          \/ g_node = "END" /\ g_trace = <<Ran("fetch_logs", FALSE), Ran("error", TRUE)>>
    /\ Failed("analyze_logs") =>
          \/ /\ g_node = "error"
             /\ g_trace = <<Ran("fetch_logs", TRUE), Ran("analyze_logs", FALSE)>>
          \/ /\ g_node = "END"
             /\ g_trace = <<Ran("fetch_logs", TRUE), Ran("analyze_logs", FALSE),
                            Ran("error", TRUE)>>
    /\ (g_node = "parse_response" \/ "parse_response" \in RanNodes) =>
          /\ Succeeded("fetch_logs") /\ ~Failed("fetch_logs")
          /\ Succeeded("analyze_logs") /\ ~Failed("analyze_logs")
          /\ "error" \notin RanNodes
    /\ "error" \in RanNodes => g_node = "END"

\* A run whose fetch failed is at END through the error node alone.
C17_Witness ==
    /\ g_node = "END"
    /\ g_trace = <<Ran("fetch_logs", FALSE), Ran("error", TRUE)>>
    /\ g_state.status = Str("error")

\* C29: in every final state of a run, status is success or error; error
\* is set exactly when status is error; with status success logs and summary
\* are set; the error node has run exactly when fetch_logs or analyze_logs
\* failed, so a run whose parse_response failed ends with status error and
\* error set without the error node having run.
C29_FinalState ==
    g_node = "END" =>
        /\ g_state.status \in {Str("success"), Str("error")}
        /\ (g_state.error # PyNone) <=> (g_state.status = Str("error"))
        /\ g_state.status = Str("success") =>
              g_state.logs # PyNone /\ g_state.summary # PyNone
        /\ ("error" \in RanNodes) <=> (Failed("fetch_logs") \/ Failed("analyze_logs"))
        /\ Failed("parse_response") =>
              /\ g_state.status = Str("error")
              /\ g_state.error # PyNone
              /\ "error" \notin RanNodes

\* A run whose parse_response failed is at END with status error, the error
\* node not visited.
C29_Witness ==
    /\ g_node = "END"
    /\ g_trace = <<Ran("fetch_logs", TRUE), Ran("analyze_logs", TRUE),
                   Ran("parse_response", FALSE)>>
    /\ g_state.status = Str("error")
    /\ g_state.error = PyStr(<<"Failed to parse response: ", "TypeError">>)

\* C21 as stated, for the log-analysis graph: with a required environment
\* setting missing (the Jenkins ones or the model ones) the failure is raised
\* when the agent is constructed, so no node of a run executes, no state
\* records the failure as an error, and no call to Jenkins or to the model
\* is made.
C21_AsStated ==
    (~g_env.jenkins \/ ~g_env.llm) =>
        /\ g_trace = <<>>
        /\ g_calls = <<>>
        /\ g_state.error = PyNone

(***************************************************************************)
(* Claims about create_analysis_prompt (SpecPrompt)                        *)
(***************************************************************************)
Prompts == {q \in {pr_prompt, pr_agents_prompt} : q # NoPrompt}

IndexOf(t, w) == CHOOSE k \in 1..Len(t) : t[k] = Whole(w)

\* The text a prompt shows between the opening of the BUILD LOGS block and
\* the text that closes it.
Embedded(prompt) ==
    LET t == prompt.val
        close == IF HasWord(t, PromptFormat) THEN PromptFormat ELSE AgentsPromptFormat
    IN SubSeq(t, IndexOf(t, BuildLogsOpen) + 1, IndexOf(t, close) - 1)

\* C20: each create_analysis_prompt embeds logs of more than 8000
\* characters as their first 4000 characters, the [TRUNCATED] marker and
\* their last 4000 characters, 8000 characters and the marker in all, and
\* embeds logs of 8000 characters or fewer unchanged.
C20_Truncation ==
    \A q \in Prompts :
        /\ HasWord(q.val, BuildLogsOpen)
        /\ IF StrLen(pr_logs) > 8000
              THEN /\ Embedded(q) =
                         Canon(SliceTo(pr_logs, 4000) \o <<Whole(TruncatedMarker)>>
                                  \o SliceFromEnd(pr_logs, 4000))
                   /\ StrLen(Embedded(q)) = 8000 + WordLen(TruncatedMarker)
                   /\ HasWord(Embedded(q), TruncatedMarker)
           ELSE /\ Embedded(q) = pr_logs
                /\ ~HasWord(Embedded(q), TruncatedMarker)

\* Logs of 8001 characters went through both functions and came out cut;
\* the character in the middle is gone.
C20_Witness ==
    /\ StrLen(pr_logs) = 8001
    /\ Len(pr_logs) = 3
    /\ pr_prompt # NoPrompt /\ pr_agents_prompt # NoPrompt
    /\ Embedded(pr_prompt) = <<pr_logs[1], Whole(TruncatedMarker), pr_logs[3]>>
    /\ Embedded(pr_agents_prompt) = Embedded(pr_prompt)

====
